---- MODULE Spec2Model ----
(***************************************************************************)
(* lazyssh: the multi-source server registry.                              *)
(*                                                                         *)
(* A config file is a sequence of lines; a line is a record                *)
(*   [ind |-> leading blanks, toks |-> the whitespace-separated fields].   *)
(* strings.Fields / strings.Join(parts[1:], " ") collapse the blanks       *)
(* between fields, so a value is the sequence of its fields.               *)
(***************************************************************************)
EXTENDS Integers, Sequences, FiniteSets, TLC

VARIABLES
  fs, backupFile, metaFile, cloudFile, appCfg, cachedIncludes, now, ops, last,
  rtFile, rtPc, rtWriter, rtFirst, rtText, rtSecond,
  unHost, unNew, unOrder, unPc,
  wrImpl, wrPrimary, wrPc, wrFs, wrOld, wrNew,
  bkImpl, bkFiles, bkRemoved, bkClock, bkStamps, bkCount,
  svPc, svRepo, svCall, svOut

engVars == <<fs, backupFile, metaFile, cloudFile, appCfg, cachedIncludes, now,
             ops, last>>

rtVars == <<rtFile, rtPc, rtWriter, rtFirst, rtText, rtSecond>>

unVars == <<unHost, unNew, unOrder, unPc>>

wrVars == <<wrImpl, wrPrimary, wrPc, wrFs, wrOld, wrNew>>

bkVars == <<bkImpl, bkFiles, bkRemoved, bkClock, bkStamps, bkCount>>

svVars == <<svPc, svRepo, svCall, svOut>>

vars == <<fs, backupFile, metaFile, cloudFile, appCfg, cachedIncludes, now,
          ops, last,
          rtFile, rtPc, rtWriter, rtFirst, rtText, rtSecond,
          unHost, unNew, unOrder, unPc,
          wrImpl, wrPrimary, wrPc, wrFs, wrOld, wrNew,
          bkImpl, bkFiles, bkRemoved, bkClock, bkStamps, bkCount,
          svPc, svRepo, svCall, svOut>>

-----------------------------------------------------------------------------
(* Each specification runs one part of the program; the variables of the    *)
(* other parts stay at their idle values.                                   *)

EngIdle ==
  /\ fs = 0
  /\ backupFile = 0
  /\ metaFile = 0
  /\ cloudFile = 0
  /\ appCfg = 0
  /\ cachedIncludes = 0
  /\ now = 0
  /\ ops = 0
  /\ last = 0

RtIdle ==
  /\ rtFile = <<>>
  /\ rtWriter = "Write"
  /\ rtPc = "idle"
  /\ rtFirst = <<>>
  /\ rtText = <<>>
  /\ rtSecond = <<>>

UnIdle ==
  /\ unHost = [Patterns |-> <<>>, Nodes |-> <<>>]
  /\ unNew = [Alias |-> "", Host |-> "", User |-> "", Port |-> 0,
              IdentityFiles |-> <<>>]
  /\ unOrder = <<>>
  /\ unPc = "idle"

WrIdle ==
  /\ wrImpl = ""
  /\ wrPrimary = FALSE
  /\ wrPc = "idle"
  /\ wrFs = 0
  /\ wrOld = 0
  /\ wrNew = <<>>

BkIdle ==
  /\ bkImpl = ""
  /\ bkFiles = {}
  /\ bkRemoved = {}
  /\ bkClock = 0
  /\ bkStamps = 0
  /\ bkCount = 0

SvIdle ==
  /\ svPc = "idle"
  /\ svRepo = 0
  /\ svCall = 0
  /\ svOut = 0

-----------------------------------------------------------------------------
(* Bounds of the model *)

MaxLines == 4

MaxNodes == 3

-----------------------------------------------------------------------------
(* Program constants *)

DefaultPort == 22

ManagedByComment == <<"#", "Managed", "by", "lazyssh">>

sshConfigAliasField == "host"
sshConfigIPField == "hostname"
sshConfigUserField == "user"
sshConfigPortField == "port"
sshConfigKeyField == "identityfile"
sshConfigInclude == "include"

-----------------------------------------------------------------------------
(* Strings of the model and the library conversions on them *)

\* strings.ToLower on the first field of a line
ToLower(s) ==
  CASE s = "Host" -> "host"
    [] s = "HOST" -> "host"
    [] s = "HostName" -> "hostname"
    [] s = "Hostname" -> "hostname"
    [] s = "User" -> "user"
    [] s = "Port" -> "port"
    [] s = "IdentityFile" -> "identityfile"
    [] s = "Include" -> "include"
    [] OTHER -> s

\* the characters of the strings that records and queries are made of
Chars(s) ==
  CASE s = "" -> <<>>
    [] s = "h1" -> <<"h", "1">>
    [] s = "h2" -> <<"h", "2">>
    [] s = "h9" -> <<"h", "9">>
    [] s = "u1" -> <<"u", "1">>
    [] s = "U1" -> <<"U", "1">>
    [] s = "u9" -> <<"u", "9">>
    [] s = "t1" -> <<"t", "1">>
    [] s = "t2" -> <<"t", "2">>
    [] s = "t9" -> <<"t", "9">>
    [] s = "T9" -> <<"T", "9">>
    [] s = "i-1" -> <<"i", "-", "1">>
    [] s = "a b" -> <<"a", " ", "b">>
    [] s = "a_b" -> <<"a", "_", "b">>
    [] s = "web*" -> <<"w", "e", "b", "*">>
    [] s = "h 1" -> <<"h", " ", "1">>
    [] s = "h_1" -> <<"h", "_", "1">>
    [] s = "a.b" -> <<"a", ".", "b">>
    [] s = "a..b" -> <<"a", ".", ".", "b">>
    [] s = "a.-b" -> <<"a", ".", "-", "b">>
    [] s = ".h" -> <<".", "h">>
    [] s = "h." -> <<"h", ".">>
    [] s = "-h" -> <<"-", "h">>
    [] s = "h-" -> <<"h", "-">>
    [] s = "::1" -> <<":", ":", "1">>
    [] s = "10.0.0.1" -> <<"1", "0", ".", "0", ".", "0", ".", "1">>
    [] OTHER -> <<s>>

\* the characters of a value of several words, one space between the words
RECURSIVE ValueChars(_)
ValueChars(toks) ==
  IF toks = <<>> THEN <<>>
  ELSE IF Len(toks) = 1 THEN Chars(toks[1])
  ELSE Chars(toks[1]) \o <<" ">> \o ValueChars(Tail(toks))

\* strings.ToLower, character by character
LowerChars(cs) ==
  [i \in 1..Len(cs) |->
     CASE cs[i] = "H" -> "h"
       [] cs[i] = "U" -> "u"
       [] cs[i] = "T" -> "t"
       [] cs[i] = "A" -> "a"
       [] OTHER -> cs[i]]

\* strings.Contains
Contains(s, substr) ==
  \E i \in 0..Len(s) :
    /\ i + Len(substr) <= Len(s)
    /\ SubSeq(s, i + 1, i + Len(substr)) = substr

\* strconv.Atoi: <<TRUE, n>> for a decimal integer, <<FALSE, 0>> for an error
Atoi(s) ==
  CASE s = "0" -> <<TRUE, 0>>
    [] s = "22" -> <<TRUE, 22>>
    [] s = "022" -> <<TRUE, 22>>
    [] s = "2222" -> <<TRUE, 2222>>
    [] s = "70000" -> <<TRUE, 70000>>
    [] s = "-5" -> <<TRUE, -5>>
    [] OTHER -> <<FALSE, 0>>

\* fmt.Sprintf("%d", n)
Itoa(n) ==
  CASE n = 0 -> "0"
    [] n = 22 -> "22"
    [] n = 2222 -> "2222"
    [] n = 70000 -> "70000"
    [] n = -5 -> "-5"
    [] OTHER -> "?"

\* strings.HasPrefix(line, "#") on a trimmed line: the first field starts with '#'
IsCommentTok(s) == s \in {"#", "#Host"}

\* the sequences over S of length at most n
RECURSIVE SeqsUpTo(_, _)
SeqsUpTo(S, n) ==
  IF n = 0 THEN {<<>>}
  ELSE LET prev == SeqsUpTo(S, n - 1)
       IN prev \cup {Append(q, x) : q \in {p \in prev : Len(p) = n - 1}, x \in S}

Line(ind, toks) == [ind |-> ind, toks |-> toks]

Tail2(s) == SubSeq(s, 2, Len(s))

-----------------------------------------------------------------------------
(* SSHConfigParser *)

shouldSkipLine(l) == l.toks = <<>> \/ IsCommentTok(l.toks[1])

\* (key, value); key "" when the line has fewer than two fields
parseKeyValue(l) ==
  IF Len(l.toks) < 2 THEN [key |-> "", value |-> <<>>]
  ELSE [key |-> ToLower(l.toks[1]), value |-> Tail2(l.toks)]

\* strconv.Atoi(value): value is the joined fields, numeric only when one field
parsePort(value) ==
  LET r == Atoi(IF Len(value) = 1 THEN value[1] ELSE "")
  IN IF r[1] THEN r[2] ELSE DefaultPort

\* "~/x" becomes filepath.Join(home, "x")
expandPath(value) ==
  IF value = <<"~/k">> THEN <<"/home/k">> ELSE value

\* time.Time{}: the zero instant (IsZero)
ZeroTime == 0

\* domain.Server with every field at its Go zero value
ZeroServer ==
  [Alias |-> <<>>, Host |-> <<>>, User |-> <<>>, Port |-> 0, Key |-> <<>>,
   Group |-> "", Tags |-> <<>>, LastSeen |-> ZeroTime, PinnedAt |-> ZeroTime,
   SSHCount |-> 0, ConnectionType |-> "", Source |-> "", AWSProfile |-> "",
   AWSRegion |-> "", EC2TagFilter |-> <<>>, SSMDocument |-> "",
   SSMCommand |-> <<>>]

NewServer(alias, group) ==
  [ZeroServer EXCEPT !.Alias = alias, !.Port = DefaultPort, !.Group = group]

\* One step of the scanner loop of parseFile on the state
\* [servers, includes, cur, has]: has is currentServer != nil.
parseLine(st, l, group) ==
  IF shouldSkipLine(l) THEN st
  ELSE
    LET kv == parseKeyValue(l) IN
    IF kv.key = "" THEN st
    ELSE IF kv.key = sshConfigInclude
      THEN [st EXCEPT !.includes = Append(@, l)]
    ELSE IF kv.key = sshConfigAliasField
      THEN [st EXCEPT !.servers = IF st.has THEN Append(@, st.cur) ELSE @,
                      !.cur = NewServer(kv.value, group),
                      !.has = TRUE]
    ELSE IF ~st.has THEN st
    ELSE IF kv.key = sshConfigIPField THEN [st EXCEPT !.cur.Host = kv.value]
    ELSE IF kv.key = sshConfigUserField THEN [st EXCEPT !.cur.User = kv.value]
    ELSE IF kv.key = sshConfigPortField
      THEN [st EXCEPT !.cur.Port = parsePort(kv.value)]
    ELSE IF kv.key = sshConfigKeyField
      THEN [st EXCEPT !.cur.Key = expandPath(kv.value)]
    ELSE st

RECURSIVE parseLines(_, _, _)
parseLines(st, lines, group) ==
  IF lines = <<>> THEN st
  ELSE parseLines(parseLine(st, Head(lines), group), Tail(lines), group)

\* parseFile on the lines of an existing file: [servers, includes]
parseFile(lines, group) ==
  LET st == parseLines([servers |-> <<>>, includes |-> <<>>,
                        cur |-> NewServer(<<>>, group), has |-> FALSE],
                       lines, group)
  IN [servers |-> IF st.has THEN Append(st.servers, st.cur) ELSE st.servers,
      includes |-> st.includes]

-----------------------------------------------------------------------------
(* SSHConfigWriter and the legacy writeSSHConfig *)

\* the lines of one Host block
writeServer(s) ==
  <<Line(0, <<"Host">> \o s.Alias)>>
  \o (IF s.Host /= <<>> THEN <<Line(4, <<"HostName">> \o s.Host)>> ELSE <<>>)
  \o (IF s.User /= <<>> THEN <<Line(4, <<"User">> \o s.User)>> ELSE <<>>)
  \o (IF s.Port /= 0 /\ s.Port /= DefaultPort
        THEN <<Line(4, <<"Port", Itoa(s.Port)>>)>> ELSE <<>>)
  \o (IF s.Key /= <<>> THEN <<Line(4, <<"IdentityFile">> \o s.Key)>> ELSE <<>>)

RECURSIVE writeBlocks(_, _)
writeBlocks(servers, i) ==
  IF i > Len(servers) THEN <<>>
  ELSE (IF i > 1 THEN <<Line(0, <<>>)>> ELSE <<>>)
       \o writeServer(servers[i]) \o writeBlocks(servers, i + 1)

\* SSHConfigWriter.Write: the marker, a blank line, the blocks
Write(servers) ==
  <<Line(0, ManagedByComment), Line(0, <<>>)>> \o writeBlocks(servers, 1)

RECURSIVE writeMarkedBlocks(_, _)
writeMarkedBlocks(servers, i) ==
  IF i > Len(servers) THEN <<>>
  ELSE (IF i > 1 THEN <<Line(0, <<>>)>> ELSE <<>>)
       \o <<Line(0, ManagedByComment)>>
       \o writeServer(servers[i]) \o writeMarkedBlocks(servers, i + 1)

\* serverRepo.writeSSHConfig: the marker before every block
writeSSHConfig(servers) == writeMarkedBlocks(servers, 1)

-----------------------------------------------------------------------------
(* Repository (ssh_config_file): a Host block is its patterns and its nodes. *)
(* A node is a key-value node [kv |-> TRUE, Key, Value] or another node      *)
(* (a comment or an empty line), [kv |-> FALSE].                             *)

KV(key, value) == [kv |-> TRUE, Key |-> key, Value |-> value]

OtherNode == [kv |-> FALSE, Key |-> "", Value |-> ""]

\* strings.EqualFold on directive names
EqualFold(a, b) == ToLower(a) = ToLower(b)

\* strings.ContainsAny(alias, "!*?[]")
HasWildcard(p) == p \in {"*", "web*", "!x", "h?"}

getProperKeyCase(key) ==
  CASE ToLower(key) = "hostname" -> "HostName"
    [] ToLower(key) = "user" -> "User"
    [] ToLower(key) = "port" -> "Port"
    [] ToLower(key) = "identityfile" -> "IdentityFile"
    [] OTHER -> key

addKVNodeIfNotEmpty(nodes, key, value) ==
  IF value = "" THEN nodes ELSE Append(nodes, KV(key, value))

\* the index of the first key-value node with that key, 0 when there is none
RECURSIVE firstKV(_, _, _)
firstKV(nodes, key, i) ==
  IF i > Len(nodes) THEN 0
  ELSE IF nodes[i].kv /\ EqualFold(nodes[i].Key, ToLower(key)) THEN i
  ELSE firstKV(nodes, key, i + 1)

updateOrAddKVNode(nodes, key, newValue) ==
  LET i == firstKV(nodes, key, 1)
  IN IF i > 0 THEN [nodes EXCEPT ![i].Value = newValue]
     ELSE Append(nodes, KV(getProperKeyCase(key), newValue))

RECURSIVE removeKey(_, _)
removeKey(nodes, key) ==
  IF nodes = <<>> THEN <<>>
  ELSE IF Head(nodes).kv /\ EqualFold(Head(nodes).Key, key)
    THEN removeKey(Tail(nodes), key)
  ELSE <<Head(nodes)>> \o removeKey(Tail(nodes), key)

RECURSIVE addIdentityFiles(_, _)
addIdentityFiles(nodes, files) ==
  IF files = <<>> THEN nodes
  ELSE addIdentityFiles(addKVNodeIfNotEmpty(nodes, "IdentityFile", Head(files)),
                        Tail(files))

updateValue(newServer, key) ==
  CASE key = "hostname" -> newServer.Host
    [] key = "user" -> newServer.User
    [] key = "port" -> Itoa(newServer.Port)

RECURSIVE applyUpdates(_, _, _)
applyUpdates(nodes, newServer, keys) ==
  IF keys = <<>> THEN nodes
  ELSE LET v == updateValue(newServer, Head(keys))
       IN applyUpdates(IF v /= "" THEN updateOrAddKVNode(nodes, Head(keys), v)
                       ELSE nodes,
                       newServer, Tail(keys))

\* updateHostNodes; order is the iteration order of the updates map
updateHostNodes(nodes, newServer, order) ==
  addIdentityFiles(removeKey(applyUpdates(nodes, newServer, order), "IdentityFile"),
                   newServer.IdentityFiles)

mapKVToServer(server, kvNode) ==
  LET k == ToLower(kvNode.Key) IN
  CASE k = "hostname" -> [server EXCEPT !.Host = kvNode.Value]
    [] k = "user" -> [server EXCEPT !.User = kvNode.Value]
    [] k = "port" -> IF Atoi(kvNode.Value)[1]
                       THEN [server EXCEPT !.Port = Atoi(kvNode.Value)[2]]
                       ELSE server
    [] k = "identityfile" ->
         [server EXCEPT !.IdentityFiles = Append(@, kvNode.Value)]
    [] OTHER -> server

RECURSIVE mapNodes(_, _)
mapNodes(server, nodes) ==
  IF nodes = <<>> THEN server
  ELSE mapNodes(IF Head(nodes).kv THEN mapKVToServer(server, Head(nodes))
                ELSE server,
                Tail(nodes))

concreteAliases(patterns) == SelectSeq(patterns, LAMBDA p : ~HasWildcard(p))

\* toDomainServer on one host: <<>> when no pattern is concrete, else <<server>>
hostToServers(host) ==
  LET aliases == concreteAliases(host.Patterns) IN
  IF aliases = <<>> THEN <<>>
  ELSE <<mapNodes([Alias |-> aliases[1], Aliases |-> aliases, Host |-> "",
                   User |-> "", Port |-> 22, IdentityFiles |-> <<>>],
                  host.Nodes)>>

-----------------------------------------------------------------------------
(* The file system: the primary config, the files of two include            *)
(* directories, each [exists, lines]                                        *)

Primary == "config"

Paths == {"config", "conf.d/g1", "conf.d/g2", "config.d/g1", "config.d/g2"}

NoFile == [exists |-> FALSE, lines |-> <<>>, denied |-> FALSE]

File(lines) == [exists |-> TRUE, lines |-> lines, denied |-> FALSE]

\* a file that exists and that os.Open refuses with an error other than
\* "not exist"
Denied(lines) == [exists |-> TRUE, lines |-> lines, denied |-> TRUE]

\* filepath.Base
Base(path) ==
  CASE path \in {"conf.d/g1", "config.d/g1"} -> "g1"
    [] path \in {"conf.d/g2", "config.d/g2"} -> "g2"
    [] OTHER -> path

\* filepath.Glob(filepath.Join(configDir, value)): the existing files that
\* match, in lexical order
Glob(fsys, value) ==
  CASE value = <<"conf.d/*">> ->
         SelectSeq(<<"conf.d/g1", "conf.d/g2">>, LAMBDA p : fsys[p].exists)
    [] value = <<"config.d/*">> ->
         SelectSeq(<<"config.d/g1", "config.d/g2">>, LAMBDA p : fsys[p].exists)
    [] OTHER -> <<>>

\* the path a group is written to: the primary, or <configDir>/config.d/<group>
GroupPath(fsys, group) ==
  IF group = "" THEN Primary ELSE "config.d/" \o group

RECURSIVE includeMatches(_, _)
includeMatches(fsys, lines) ==
  IF lines = <<>> THEN <<>>
  ELSE LET l == Head(lines)
           kv == parseKeyValue(l)
           here == IF ~shouldSkipLine(l) /\ kv.key = sshConfigInclude
                     THEN Glob(fsys, kv.value) ELSE <<>>
       IN [i \in 1..Len(here) |-> [Path |-> here[i], Group |-> Base(here[i])]]
          \o includeMatches(fsys, Tail(lines))

\* getConfigFiles: the primary first, then the matches of its Include lines
getConfigFiles(fsys) ==
  <<[Path |-> Primary, Group |-> ""]>>
  \o (IF fsys[Primary].exists THEN includeMatches(fsys, fsys[Primary].lines)
      ELSE <<>>)

\* getConfigFiles failing on a primary that does not exist
parseError_Missing(fsys) == ~fsys[Primary].exists \/ fsys[Primary].denied

\* the error of getConfigFiles, which Parse and parseServers return: the
\* primary file exists and cannot be opened
parseError(fsys) == fsys[Primary].exists /\ fsys[Primary].denied

\* parseFile on a path: a missing file yields no servers and no includes, and
\* so does a file that cannot be opened, whose error Parse skips
parsePath(fsys, path, group) ==
  IF fsys[path].exists /\ ~fsys[path].denied
    THEN parseFile(fsys[path].lines, group)
  ELSE [servers |-> <<>>, includes |-> <<>>]

RECURSIVE parseAll(_, _)
parseAll(fsys, files) ==
  IF files = <<>> THEN <<>>
  ELSE parsePath(fsys, Head(files).Path, Head(files).Group).servers
       \o parseAll(fsys, Tail(files))

\* SSHConfigParser.Parse: the servers of every file, in file order
ParseServers(fsys) ==
  IF parseError(fsys) THEN <<>> ELSE parseAll(fsys, getConfigFiles(fsys))

\* SSHConfigParser.Parse: the Include lines of each parsed file, by its path
ParseIncludes(fsys) ==
  LET files == getConfigFiles(fsys) IN
  [p \in Paths |->
     IF \E i \in 1..Len(files) : files[i].Path = p
       THEN parsePath(fsys, p, Base(p)).includes ELSE <<>>]

-----------------------------------------------------------------------------
(* sshConfigManager *)

\* SSHConfigWriter.Write as writeFile calls it, with the Include lines of the
\* file: they come first, unmodified, then the blocks
WriteWithDirectives(servers, directives) == directives \o Write(servers)

\* backupCurrentConfig: one backup file, overwritten, only if the primary exists
backupCurrentConfig(fsys, backup) ==
  IF fsys[Primary].exists THEN File(fsys[Primary].lines) ELSE backup

serversOfGroup(servers, group) == SelectSeq(servers, LAMBDA s : s.Group = group)

groupsOf(servers) == {servers[i].Group : i \in 1..Len(servers)}

\* the keys of groupedServers: the groups that have a server
writtenGroups(servers) == groupsOf(servers)

\* the group files of config.d before the write
existingGroupFiles(fsys) == Glob(fsys, <<"config.d/*">>)

\* writeGroupedServers: the files after every group is written and the
\* emptied group files of config.d are removed
writeGroupedServers(fsys, includes, servers) ==
  LET old == existingGroupFiles(fsys)
      groups == writtenGroups(servers)
      target == {GroupPath(fsys, g) : g \in groups}
      groupAt(p) == CHOOSE g \in groups : GroupPath(fsys, g) = p
      obsolete == {old[i] : i \in {j \in 1..Len(old) : Base(old[j]) \notin groups}}
  IN [p \in Paths |->
        IF p \in target
          THEN File(WriteWithDirectives(serversOfGroup(servers, groupAt(p)),
                                        includes[p]))
        ELSE IF p \in obsolete THEN NoFile
        ELSE fsys[p]]

\* writeFile backs the primary up when the primary is one of the written files
backupAfterWrite(fsys, backup, servers) ==
  IF "" \in writtenGroups(servers) THEN backupCurrentConfig(fsys, backup)
  ELSE backup

hasAlias(servers, alias) == \E i \in 1..Len(servers) : servers[i].Alias = alias

RECURSIVE firstWithAlias(_, _, _)
firstWithAlias(servers, alias, i) ==
  IF i > Len(servers) THEN 0
  ELSE IF servers[i].Alias = alias THEN i
  ELSE firstWithAlias(servers, alias, i + 1)

\* addServer without the duplicate loop
addServer_NoCheck(servers, server) ==
  [err |-> "", servers |-> Append(servers, server)]

\* the result of a manager operation when parseServers fails
ParseFailed == [err |-> "Parse", servers |-> <<>>]

\* sshConfigManager.parseServers: the include cache is replaced only when the
\* parse succeeds
cacheAfterParse(fsys, cache) ==
  IF parseError(fsys) THEN cache ELSE ParseIncludes(fsys)

\* the result of a manager operation: the error and the servers to write
addServer(servers, server) ==
  IF hasAlias(servers, server.Alias)
    THEN [err |-> "AlreadyExists", servers |-> servers]
  ELSE [err |-> "", servers |-> Append(servers, server)]

\* updateServer without the found test
updateServer_Silent(servers, alias, newServer) ==
  LET i == firstWithAlias(servers, alias, 1) IN
  IF i = 0 THEN [err |-> "", servers |-> servers]
  ELSE [err |-> "", servers |-> [servers EXCEPT ![i] = newServer]]

updateServer(servers, alias, newServer) ==
  LET i == firstWithAlias(servers, alias, 1) IN
  IF i = 0 THEN [err |-> "NotFound", servers |-> servers]
  ELSE [err |-> "", servers |-> [servers EXCEPT ![i] = newServer]]

\* deleteServer without the found test
deleteServer_Silent(servers, alias) ==
  [err |-> "", servers |-> SelectSeq(servers, LAMBDA s : s.Alias /= alias)]

deleteServer(servers, alias) ==
  IF ~hasAlias(servers, alias) THEN [err |-> "NotFound", servers |-> servers]
  ELSE [err |-> "", servers |-> SelectSeq(servers, LAMBDA s : s.Alias /= alias)]

-----------------------------------------------------------------------------
(* Metadata store: the file is [kind, entries], entries a function from the *)
(* aliases it holds to ServerMetadata; a stored timestamp is [set, ok, t]   *)

NoStamp == [set |-> FALSE, ok |-> FALSE, t |-> 0]

\* time.Time.Format(time.RFC3339): the text keeps whole seconds only; a time
\* is counted in half seconds
Format(t) == [set |-> TRUE, ok |-> TRUE, t |-> t - (t % 2)]

ZeroMetadata ==
  [Tags |-> <<>>, LastSeen |-> NoStamp, PinnedAt |-> NoStamp, SSHCount |-> 0]

EmptyEntries == [a \in {} |-> ZeroMetadata]

MetaFile(kind, entries) == [kind |-> kind, entries |-> entries]

\* loadMetadata: a missing or empty file is the empty map, malformed content
\* is an error
loadMetadata(mf) ==
  CASE mf.kind \in {"missing", "empty"} -> [err |-> FALSE, entries |-> EmptyEntries]
    [] mf.kind = "malformed" -> [err |-> TRUE, entries |-> EmptyEntries]
    [] OTHER -> [err |-> FALSE, entries |-> mf.entries]

saveMetadata(entries) == MetaFile("json", entries)

\* updateMetadata: the entry of the alias is replaced by the tags and the
\* last-seen time of the server, and its pin time when that is set
updateMetadata(mf, server) ==
  LET metadata == loadMetadata(mf).entries
      serverMeta == [ZeroMetadata EXCEPT
                       !.Tags = server.Tags,
                       !.LastSeen = Format(server.LastSeen),
                       !.PinnedAt = IF server.PinnedAt /= ZeroTime
                                      THEN Format(server.PinnedAt) ELSE NoStamp]
  IN saveMetadata([a \in DOMAIN metadata \cup {server.Alias} |->
                     IF a = server.Alias THEN serverMeta ELSE metadata[a]])

removeFromMetadata(mf, alias) ==
  LET loaded == loadMetadata(mf) IN
  IF loaded.err THEN mf
  ELSE saveMetadata([a \in DOMAIN loaded.entries \ {alias} |-> loaded.entries[a]])

\* metadata[alias]: the zero entry when the alias has none
entryOf(metadata, alias) ==
  IF alias \in DOMAIN metadata THEN metadata[alias] ELSE ZeroMetadata

\* the map with the entry of the alias set
withEntry(metadata, alias, m) ==
  [a \in DOMAIN metadata \cup {alias} |-> IF a = alias THEN m ELSE metadata[a]]

\* SetPinned: pinned_at of the entry becomes the formatted current time, or ""
setPinned(mf, alias, pinned, clock) ==
  LET metadata == loadMetadata(mf).entries IN
  saveMetadata(withEntry(metadata, alias,
                         [entryOf(metadata, alias) EXCEPT
                            !.PinnedAt = IF pinned THEN Format(clock)
                                         ELSE NoStamp]))

\* RecordSSH with the count set to 1 instead of incremented
recordSSH_Reset(mf, alias, clock) ==
  LET metadata == loadMetadata(mf).entries IN
  saveMetadata(withEntry(metadata, alias,
                         [entryOf(metadata, alias) EXCEPT
                            !.LastSeen = Format(clock), !.SSHCount = 1]))

\* RecordSSH: last_seen becomes the formatted current time, ssh_count grows
\* by one
recordSSH(mf, alias, clock) ==
  LET metadata == loadMetadata(mf).entries IN
  saveMetadata(withEntry(metadata, alias,
                         [entryOf(metadata, alias) EXCEPT
                            !.LastSeen = Format(clock),
                            !.SSHCount = @ + 1]))

\* the loop body without the reset of LastSeen
mergeOne_KeepLastSeen(server, metadata) ==
  IF server.Alias \in DOMAIN metadata
    THEN LET meta == metadata[server.Alias] IN
         [server EXCEPT
            !.Tags = meta.Tags,
            !.SSHCount = meta.SSHCount,
            !.LastSeen = IF meta.LastSeen.set /\ meta.LastSeen.ok
                           THEN meta.LastSeen.t ELSE server.LastSeen,
            !.PinnedAt = IF meta.PinnedAt.set /\ meta.PinnedAt.ok
                           THEN meta.PinnedAt.t ELSE server.PinnedAt]
  ELSE server

\* the body of the loop of mergeMetadata
mergeOne(server, metadata) ==
  IF server.Alias \in DOMAIN metadata
    THEN LET meta == metadata[server.Alias] IN
         [server EXCEPT
            !.Tags = meta.Tags,
            !.SSHCount = meta.SSHCount,
            !.LastSeen = IF meta.LastSeen.set /\ meta.LastSeen.ok
                           THEN meta.LastSeen.t ELSE ZeroTime,
            !.PinnedAt = IF meta.PinnedAt.set /\ meta.PinnedAt.ok
                           THEN meta.PinnedAt.t ELSE server.PinnedAt]
  ELSE [server EXCEPT !.LastSeen = ZeroTime]

mergeMetadata(servers, metadata) ==
  [i \in 1..Len(servers) |-> mergeOne(servers[i], metadata)]

-----------------------------------------------------------------------------
(* Cloud descriptor: [kind, entries, global] *)

ConnectionTypeSSH == "ssh"

ConnectionTypeAWS == "aws"

ZeroAWSServerConfig ==
  [Alias |-> <<>>, Profile |-> "", Region |-> "", Method |-> "",
   InstanceID |-> <<>>, Filters |-> <<>>, Document |-> "", LocalPort |-> 0,
   RemotePort |-> 0, PortNumber |-> 0, Tags |-> <<>>]

ZeroAWSGlobalConfig == [DefaultRegion |-> "", DefaultSSMDocument |-> ""]

\* buildTagFilterString: the filters that have values, in order
buildTagFilterString(filters) == SelectSeq(filters, LAMBDA f : f.Values /= <<>>)

\* convertToServer: [ok, server]
convertToServer(config, globalConfig, clock) ==
  LET region == IF config.Region /= "" THEN config.Region
                ELSE IF globalConfig.DefaultRegion /= ""
                  THEN globalConfig.DefaultRegion
                ELSE "us-east-1"
      document == IF config.Document /= "" THEN config.Document
                  ELSE IF globalConfig.DefaultSSMDocument /= ""
                    THEN globalConfig.DefaultSSMDocument
                  ELSE "AWS-StartSSHSession"
      command == IF config.LocalPort > 0 /\ config.RemotePort > 0
                   THEN <<"localPortNumber", config.LocalPort,
                          "remotePortNumber", config.RemotePort>>
                 ELSE IF config.PortNumber > 0
                   THEN <<"portNumber", config.PortNumber>>
                 ELSE IF document = "AWS-StartInteractiveCommand"
                   THEN <<"command", "sudo su - ubuntu">>
                 ELSE <<>>
      server == [ZeroServer EXCEPT
                   !.Alias = config.Alias,
                   !.ConnectionType = ConnectionTypeAWS,
                   !.Source = "aws_yaml",
                   !.AWSProfile = config.Profile,
                   !.Tags = config.Tags,
                   !.LastSeen = clock,
                   !.AWSRegion = region,
                   !.SSMDocument = document,
                   !.SSMCommand = command]
  IN
  IF config.Alias = <<>> \/ config.Profile = "" THEN [ok |-> FALSE, server |-> ZeroServer]
  ELSE IF config.Method = "instance_id"
    THEN IF config.InstanceID = <<>> THEN [ok |-> FALSE, server |-> ZeroServer]
         ELSE [ok |-> TRUE, server |-> [server EXCEPT !.Host = config.InstanceID]]
  ELSE IF config.Method = "ec2_tag_filter"
    THEN IF config.Filters = <<>> THEN [ok |-> FALSE, server |-> ZeroServer]
         ELSE [ok |-> TRUE,
               server |-> [server EXCEPT
                             !.EC2TagFilter = buildTagFilterString(config.Filters)]]
  ELSE [ok |-> FALSE, server |-> ZeroServer]

\* a parse that leaves out the entries that do not convert
awsParse_SkipBad(entries, globalConfig, clock) ==
  LET good == SelectSeq(entries,
                LAMBDA e : convertToServer(e, globalConfig, clock).ok)
  IN [err |-> FALSE,
      servers |-> [i \in 1..Len(good) |->
                     convertToServer(good[i], globalConfig, clock).server]]

\* AWSYamlParser.Parse on a decoded document: the first entry that does not
\* convert fails the whole parse
awsParse(entries, globalConfig, clock) ==
  IF \E i \in 1..Len(entries) : ~convertToServer(entries[i], globalConfig, clock).ok
    THEN [err |-> TRUE, servers |-> <<>>]
  ELSE [err |-> FALSE,
        servers |-> [i \in 1..Len(entries) |->
                       convertToServer(entries[i], globalConfig, clock).server]]

\* AWSConfigManager.parseServers: a missing or undecodable file is an error
awsParseServers(cf, clock) ==
  IF cf.kind /= "yaml" THEN [err |-> TRUE, servers |-> <<>>]
  ELSE awsParse(cf.entries, cf.global, clock)

-----------------------------------------------------------------------------
(* Application configuration: [exists, EnableAWSSource] *)

\* domain.DefaultConfig
DefaultConfig == [exists |-> TRUE, EnableAWSSource |-> TRUE]

\* a load that ignores the file
configLoad_Default(cfg) == DefaultConfig

\* configManager.load: a missing file is created with the default
configLoad(cfg) == IF cfg.exists THEN cfg ELSE DefaultConfig

-----------------------------------------------------------------------------
(* serverRepo.ListServers *)

setSSH(servers) ==
  [i \in 1..Len(servers) |->
     [servers[i] EXCEPT !.ConnectionType = ConnectionTypeSSH,
                        !.Source = "ssh_config"]]

\* a listing that a failing cloud descriptor empties
allServers_FailWhole(fsys, cf, cfg, clock) ==
  LET aws == awsParseServers(cf, clock) IN
  IF configLoad(cfg).EnableAWSSource /\ aws.err THEN <<>>
  ELSE setSSH(ParseServers(fsys))
       \o (IF configLoad(cfg).EnableAWSSource THEN aws.servers ELSE <<>>)

\* the servers before the metadata merge: ssh servers, then aws servers
allServers(fsys, cf, cfg, clock) ==
  LET aws == awsParseServers(cf, clock) IN
  setSSH(ParseServers(fsys))
  \o (IF configLoad(cfg).EnableAWSSource /\ ~aws.err THEN aws.servers ELSE <<>>)

\* the result of ListServers("")
ListView(fsys, mf, cf, cfg, clock) ==
  mergeMetadata(allServers(fsys, cf, cfg, clock), loadMetadata(mf).entries)

\* a match on alias, host and user only
matchesQuery_NoTags(server, queryLower) ==
  \/ Contains(LowerChars(ValueChars(server.Alias)), queryLower)
  \/ Contains(LowerChars(ValueChars(server.Host)), queryLower)
  \/ Contains(LowerChars(ValueChars(server.User)), queryLower)

\* serverRepo.matchesQuery
matchesQuery(server, queryLower) ==
  \/ Contains(LowerChars(ValueChars(server.Alias)), queryLower)
  \/ Contains(LowerChars(ValueChars(server.Host)), queryLower)
  \/ Contains(LowerChars(ValueChars(server.User)), queryLower)
  \/ \E i \in 1..Len(server.Tags) :
       Contains(LowerChars(Chars(server.Tags[i])), queryLower)

\* serverRepo.filterServers
filterServers(servers, query) ==
  LET queryLower == LowerChars(Chars(query)) IN
  SelectSeq(servers, LAMBDA server : matchesQuery(server, queryLower))

\* the result of ListServers(query)
ListQuery(fsys, mf, cf, cfg, clock, query) ==
  IF query /= "" THEN filterServers(ListView(fsys, mf, cf, cfg, clock), query)
  ELSE ListView(fsys, mf, cf, cfg, clock)

-----------------------------------------------------------------------------
(* The engine: serverRepo over the primary config, its included files, the  *)
(* metadata file, the cloud descriptor and the application configuration    *)

MaxOps == 2

HostBlock(alias, host) ==
  <<Line(0, <<"Host", alias>>), Line(4, <<"HostName", host>>)>>

IncludeLine(pattern) == Line(0, <<"Include", pattern>>)

EmptyFs == [p \in Paths |-> NoFile]

\* the files the engine may find: no file at all, one or two blocks in the
\* primary, two included files under conf.d, a primary block with a written
\* group file under config.d, an alias defined in two files, a primary that
\* cannot be opened, an included file that cannot be opened, an Include
\* line that matches no file, and a block with the line Port 0
Layouts ==
  { EmptyFs,
    [EmptyFs EXCEPT !["config"] =
       File(<<Line(0, <<"#", "note">>)>> \o HostBlock("a", "h1")
            \o <<Line(4, <<"User", "U1">>)>>)],
    [EmptyFs EXCEPT !["config"] = File(HostBlock("a", "h1") \o HostBlock("b", "h2"))],
    [EmptyFs EXCEPT !["config"] = File(<<IncludeLine("conf.d/*")>>),
                    !["conf.d/g1"] = File(HostBlock("a", "h1")),
                    !["conf.d/g2"] = File(HostBlock("b", "h2"))],
    [EmptyFs EXCEPT !["config"] =
                      File(<<IncludeLine("config.d/*")>> \o HostBlock("a", "h1")),
                    !["config.d/g1"] =
                      File(Write(<<[NewServer(<<"b">>, "g1") EXCEPT
                                      !.Host = <<"h2">>]>>))],
    [EmptyFs EXCEPT !["config"] =
                      File(<<IncludeLine("conf.d/*")>> \o HostBlock("a", "h1")),
                    !["conf.d/g1"] = File(HostBlock("a", "h2"))],
    [EmptyFs EXCEPT !["config"] = Denied(HostBlock("a", "h1"))],
    [EmptyFs EXCEPT !["config"] =
                      File(<<IncludeLine("conf.d/*")>> \o HostBlock("a", "h1")),
                    !["conf.d/g1"] = Denied(HostBlock("b", "h2"))],
    [EmptyFs EXCEPT !["config"] =
                      File(<<IncludeLine("conf.d/*")>> \o HostBlock("a", "h1"))],
    [EmptyFs EXCEPT !["config"] =
                      File(HostBlock("a", "h1") \o HostBlock("b", "h2")
                           \o <<Line(4, <<"Port", "0">>)>>)] }

\* the entries of a metadata file that holds alias a
MetaA ==
  [a \in {<<"a">>} |->
     [Tags |-> <<"t1">>, LastSeen |-> Format(2), PinnedAt |-> Format(2),
      SSHCount |-> 3]]

\* no file, a file that holds the entry of a next to content json.Unmarshal
\* rejects, and a file of the entry of a alone
MetaFiles ==
  { MetaFile("missing", EmptyEntries),
    MetaFile("malformed", MetaA),
    MetaFile("json", MetaA) }

CloudC ==
  [ZeroAWSServerConfig EXCEPT !.Alias = <<"c">>, !.Profile = "p",
                              !.Method = "instance_id", !.InstanceID = <<"i-1">>,
                              !.Tags = <<"t9">>]

CloudA ==
  [ZeroAWSServerConfig EXCEPT !.Alias = <<"a">>, !.Profile = "p", !.Region = "r2",
                              !.Method = "ec2_tag_filter",
                              !.Filters = <<[Name |-> "tag:Name",
                                             Values |-> <<"v">>]>>,
                              !.PortNumber = 22]

CloudFiles ==
  { [kind |-> "missing", entries |-> <<>>, global |-> ZeroAWSGlobalConfig],
    [kind |-> "yaml", entries |-> <<CloudC, CloudA>>,
     global |-> ZeroAWSGlobalConfig],
    [kind |-> "yaml",
     entries |-> <<CloudC, [CloudA EXCEPT !.Profile = ""]>>,
     global |-> [ZeroAWSGlobalConfig EXCEPT !.DefaultRegion = "r1"]],
    [kind |-> "yaml",
     entries |-> <<CloudC, [CloudA EXCEPT !.Alias = <<>>]>>,
     global |-> ZeroAWSGlobalConfig],
    [kind |-> "yaml",
     entries |-> <<CloudC, [CloudC EXCEPT !.Alias = <<"d">>, !.InstanceID = <<>>]>>,
     global |-> ZeroAWSGlobalConfig],
    [kind |-> "yaml",
     entries |-> <<CloudC,
                   [CloudA EXCEPT !.Filters = <<[Name |-> "tag:Name",
                                                 Values |-> <<>>]>>]>>,
     global |-> ZeroAWSGlobalConfig] }

AppConfigs ==
  { [exists |-> FALSE, EnableAWSSource |-> FALSE],
    [exists |-> TRUE, EnableAWSSource |-> FALSE] }

\* a record as the caller hands it over
Record(alias, group, port, type) ==
  [NewServer(alias, group) EXCEPT !.Host = <<"h9">>, !.Port = port,
                                  !.ConnectionType = type]

AddArgs ==
  { Record(<<"a">>, "", 22, ""),
    Record(<<"b">>, "", 2222, ConnectionTypeAWS),
    [Record(<<"b">>, "g1", 22, ConnectionTypeSSH) EXCEPT !.Tags = <<"t2">>],
    Record(<<"a">>, "g2", 2222, ConnectionTypeSSH) }

OldArgs ==
  { Record(<<"a">>, "", 22, ConnectionTypeSSH),
    Record(<<"b">>, "", 22, ConnectionTypeSSH),
    Record(<<"c">>, "", 22, ConnectionTypeSSH),
    Record(<<"c">>, "", 22, ConnectionTypeAWS) }

NewArgs(old) ==
  { [Record(old.Alias, "", 2222, ConnectionTypeSSH) EXCEPT !.User = <<"u9">>],
    Record(old.Alias, "g1", 22, ConnectionTypeSSH),
    Record(<<"b">>, "", 22, ConnectionTypeSSH) }

\* no operation before
NoPrev ==
  [op |-> "none", alias |-> <<>>, flag |-> FALSE, err |-> "",
   preMeta |-> MetaFile("missing", EmptyEntries), preNow |-> 0]

\* the operation before, as the next one records it
PrevOf(l) ==
  [op |-> l.op, alias |-> l.arg.Alias, flag |-> l.flag, err |-> l.err,
   preMeta |-> l.preMeta, preNow |-> l.preNow]

FirstOutcome ==
  [op |-> "none", arg |-> ZeroServer, new |-> ZeroServer, err |-> "",
   result |-> <<>>, flag |-> FALSE, query |-> "", prev |-> NoPrev,
   preFs |-> fs, preBackup |-> backupFile, preMeta |-> metaFile,
   preCfg |-> appCfg, preNow |-> now]

Outcome(op, arg, new, err, result) ==
  [op |-> op, arg |-> arg, new |-> new, err |-> err, result |-> result,
   flag |-> FALSE, query |-> "", prev |-> PrevOf(last),
   preFs |-> fs, preBackup |-> backupFile, preMeta |-> metaFile,
   preCfg |-> appCfg, preNow |-> now]

EngInit ==
  /\ RtIdle /\ UnIdle /\ WrIdle /\ BkIdle /\ SvIdle
  /\ fs \in Layouts
  /\ backupFile = NoFile
  /\ metaFile \in MetaFiles
  /\ cloudFile \in CloudFiles
  /\ appCfg \in AppConfigs
  /\ cachedIncludes = [p \in Paths |-> <<>>]
  /\ now = 3
  /\ ops = 0
  /\ last = FirstOutcome

\* the guard left out
isCloudTarget_Never(server) == FALSE

\* the guard of UpdateServer and DeleteServer
isCloudTarget(server) == server.ConnectionType = ConnectionTypeAWS

\* what stays as it is when the structural store is not written
NoWrite == UNCHANGED <<fs, backupFile, metaFile>>

\* serverRepo.AddServer
AddServer ==
  \E arg \in AddArgs :
    LET server == [arg EXCEPT !.ConnectionType = ConnectionTypeSSH,
                              !.Source = "ssh_config"]
        r == IF parseError(fs) THEN ParseFailed
             ELSE addServer(ParseServers(fs), server)
    IN /\ ops < MaxOps
       /\ ops' = ops + 1
       /\ now' = now + 1
       /\ cachedIncludes' = cacheAfterParse(fs, cachedIncludes)
       /\ last' = Outcome("add", arg, server, r.err, <<>>)
       /\ IF r.err /= "" THEN NoWrite
          ELSE /\ fs' = writeGroupedServers(fs, ParseIncludes(fs), r.servers)
               /\ backupFile' = backupAfterWrite(fs, backupFile, r.servers)
               /\ metaFile' = updateMetadata(metaFile, server)
       /\ UNCHANGED <<cloudFile, appCfg, rtVars, svVars, unVars, wrVars, bkVars>>

\* serverRepo.UpdateServer
UpdateServer ==
  \E arg \in OldArgs : \E newServer \in NewArgs(arg) :
    LET r == IF parseError(fs) THEN ParseFailed
             ELSE updateServer(ParseServers(fs), arg.Alias, newServer) IN
    /\ ops < MaxOps
    /\ ops' = ops + 1
    /\ now' = now + 1
    /\ IF isCloudTarget(arg)
         THEN /\ last' = Outcome("update", arg, newServer, "Validation", <<>>)
              /\ NoWrite
              /\ UNCHANGED cachedIncludes
       ELSE /\ last' = Outcome("update", arg, newServer, r.err, <<>>)
            /\ cachedIncludes' = cacheAfterParse(fs, cachedIncludes)
            /\ IF r.err /= "" THEN NoWrite
               ELSE /\ fs' = writeGroupedServers(fs, ParseIncludes(fs), r.servers)
                    /\ backupFile' = backupAfterWrite(fs, backupFile, r.servers)
                    /\ metaFile' = updateMetadata(metaFile, newServer)
    /\ UNCHANGED <<cloudFile, appCfg, rtVars, svVars, unVars, wrVars, bkVars>>

\* serverRepo.DeleteServer
DeleteServer ==
  \E arg \in OldArgs :
    LET r == IF parseError(fs) THEN ParseFailed
             ELSE deleteServer(ParseServers(fs), arg.Alias) IN
    /\ ops < MaxOps
    /\ ops' = ops + 1
    /\ now' = now + 1
    /\ IF isCloudTarget(arg)
         THEN /\ last' = Outcome("delete", arg, ZeroServer, "Validation", <<>>)
              /\ NoWrite
              /\ UNCHANGED cachedIncludes
       ELSE /\ last' = Outcome("delete", arg, ZeroServer, r.err, <<>>)
            /\ cachedIncludes' = cacheAfterParse(fs, cachedIncludes)
            /\ IF r.err /= "" THEN NoWrite
               ELSE /\ fs' = writeGroupedServers(fs, ParseIncludes(fs), r.servers)
                    /\ backupFile' = backupAfterWrite(fs, backupFile, r.servers)
                    /\ metaFile' = removeFromMetadata(metaFile, arg.Alias)
    /\ UNCHANGED <<cloudFile, appCfg, rtVars, svVars, unVars, wrVars, bkVars>>

\* the queries of the caller: none, a capital letter of three hosts, a tag in
\* capitals, a letter of a user name, an alias, and a letter of no record
Queries == {"", "H", "T9", "u", "a", "z"}

\* serverRepo.ListServers
ListServers ==
  \E query \in Queries :
  /\ ops < MaxOps
  /\ ops' = ops + 1
  /\ now' = now + 1
  /\ appCfg' = configLoad(appCfg)
  /\ cachedIncludes' = cacheAfterParse(fs, cachedIncludes)
  /\ last' = [(IF parseError(fs)
                 THEN Outcome("list", ZeroServer, ZeroServer, "Parse", <<>>)
               ELSE Outcome("list", ZeroServer, ZeroServer, "",
                            ListQuery(fs, metaFile, cloudFile, appCfg, now, query)))
              EXCEPT !.query = query]
  /\ NoWrite
  /\ UNCHANGED <<cloudFile, rtVars, svVars, unVars, wrVars, bkVars>>

\* serverRepo.SetAWSSourceEnabled
SetAWSSourceEnabled ==
  \E enabled \in BOOLEAN :
    /\ ops < MaxOps
    /\ ops' = ops + 1
    /\ now' = now + 1
    /\ appCfg' = [configLoad(appCfg) EXCEPT !.EnableAWSSource = enabled]
    /\ last' = [Outcome("toggle", ZeroServer, ZeroServer, "", <<>>)
                EXCEPT !.flag = enabled]
    /\ NoWrite
    /\ UNCHANGED <<cloudFile, cachedIncludes, rtVars, svVars, unVars, wrVars,
                   bkVars>>

\* the aliases the caller pins and connects to
MetaAliases == {<<"a">>, <<"c">>}

\* serverRepo.SetPinned
SetPinned ==
  \E alias \in MetaAliases : \E pinned \in BOOLEAN :
    /\ ops < MaxOps
    /\ ops' = ops + 1
    /\ now' = now + 1
    /\ metaFile' = setPinned(metaFile, alias, pinned, now)
    /\ last' = [Outcome("pin", [ZeroServer EXCEPT !.Alias = alias], ZeroServer,
                        "", <<>>) EXCEPT !.flag = pinned]
    /\ UNCHANGED <<fs, backupFile, cloudFile, appCfg, cachedIncludes,
                   rtVars, svVars, unVars, wrVars, bkVars>>

\* serverRepo.RecordSSH
RecordSSH ==
  \E alias \in MetaAliases : \E dt \in {0, 1} :
    /\ ops < MaxOps
    /\ ops' = ops + 1
    /\ now' = now + dt
    /\ metaFile' = recordSSH(metaFile, alias, now)
    /\ last' = Outcome("use", [ZeroServer EXCEPT !.Alias = alias], ZeroServer,
                       "", <<>>)
    /\ UNCHANGED <<fs, backupFile, cloudFile, appCfg, cachedIncludes,
                   rtVars, svVars, unVars, wrVars, bkVars>>

Next == AddServer \/ UpdateServer \/ DeleteServer \/ ListServers
          \/ SetAWSSourceEnabled \/ SetPinned \/ RecordSSH

Spec == EngInit /\ [][Next]_vars

-----------------------------------------------------------------------------
(* Properties of the engine *)

\* the structural record set before the last operation
Before == ParseServers(last.preFs)

\* the structural record set now
After == ParseServers(fs)

Untouched ==
  /\ fs = last.preFs
  /\ backupFile = last.preBackup
  /\ metaFile = last.preMeta

\* C2: add of a record whose alias is already in the structural record set
\* returns already-exists and changes no config file, no backup, no metadata.
C2_AddDuplicate ==
  (last.op = "add" /\ hasAlias(Before, last.arg.Alias)) =>
    (last.err = "AlreadyExists" /\ Untouched)

C2_Witness ==
  /\ last.op = "add"
  /\ hasAlias(Before, last.arg.Alias)
  /\ last.err = "AlreadyExists"
  /\ last.preFs[Primary].exists

\* C3: after a successful delete of an ssh record no file defines the alias
\* any more and the metadata store has no entry for it.
C3_DeleteRemoves ==
  (last.op = "delete" /\ last.err = "") =>
    /\ ~hasAlias(After, last.arg.Alias)
    /\ last.arg.Alias \notin DOMAIN loadMetadata(metaFile).entries

\* C5 as stated: delete of a record whose alias is not in the structural
\* record set returns not-found and changes nothing.
C5_DeleteMissingNotFound ==
  (last.op = "delete" /\ ~hasAlias(Before, last.arg.Alias)) =>
    (last.err = "NotFound" /\ Untouched)

\* C5: delete of a record whose alias is not in the structural record set
\* fails and changes no config file, no backup, no metadata; the error is the
\* validation error for a cloud record, the parse error when the primary
\* config cannot be opened, and not-found in every other case.
C5_DeleteMissing ==
  (last.op = "delete" /\ ~hasAlias(Before, last.arg.Alias)) =>
    /\ last.err = CASE last.arg.ConnectionType = ConnectionTypeAWS -> "Validation"
                     [] last.arg.ConnectionType /= ConnectionTypeAWS
                        /\ parseError(last.preFs) -> "Parse"
                     [] OTHER -> "NotFound"
    /\ Untouched

C5_Witness ==
  /\ last.op = "delete"
  /\ ~hasAlias(Before, last.arg.Alias)
  /\ last.err = "NotFound"
  /\ Before /= <<>>
  /\ last.preMeta.kind = "json"

\* the included files of the conf.d layout
ConfD == {"conf.d/g1", "conf.d/g2"}

\* C7: with Include conf.d/* matching two files, every record of an included
\* file carries the basename of that file as its group; once a delete has
\* removed every record of one group, that group's file is gone, the other
\* file is as it was and the primary still holds its Include line.
C7_GroupFiles ==
  LET pre == last.preFs
      mine == "conf.d/" \o (CHOOSE x \in {"g1", "g2"} :
                              hasAlias(serversOfGroup(Before, x), last.arg.Alias))
  IN (/\ last.op = "delete"
      /\ last.err = ""
      /\ pre[Primary].exists
      /\ pre[Primary].lines = <<IncludeLine("conf.d/*")>>
      /\ \A p \in ConfD : pre[p].exists
      /\ \A i \in 1..Len(Before) :
           Before[i].Alias = last.arg.Alias
             <=> Before[i].Group = Base(mine))
     =>
     /\ \A p \in ConfD :
          \A i \in 1..Len(parsePath(pre, p, Base(p)).servers) :
            \E j \in 1..Len(Before) :
              /\ Before[j].Alias = parsePath(pre, p, Base(p)).servers[i].Alias
              /\ Before[j].Group = Base(p)
     /\ ~fs[mine].exists
     /\ \A p \in ConfD \ {mine} : fs[p] = pre[p]
     /\ fs[Primary] = pre[Primary]

\* C9: the aliases of a list result are pairwise distinct.
C9_DistinctAliases ==
  last.op = "list" =>
    \A i, j \in 1..Len(last.result) :
      i /= j => last.result[i].Alias /= last.result[j].Alias

\* C10 as stated: a listed record whose alias has no metadata entry has no
\* tags, no last-seen time, no pin time and use count 0.
C10_OnlyFromMetadata ==
  last.op = "list" =>
    \A i \in 1..Len(last.result) :
      last.result[i].Alias \notin DOMAIN loadMetadata(last.preMeta).entries =>
        /\ last.result[i].Tags = <<>>
        /\ last.result[i].LastSeen = ZeroTime
        /\ last.result[i].PinnedAt = ZeroTime
        /\ last.result[i].SSHCount = 0

\* C10: a record of the unfiltered list whose alias has no metadata entry has
\* no last-seen time, no pin time and use count 0; its tags are empty for an
\* ssh record and the tags of its descriptor entry for a cloud record.
C10_AnnotationOrigin ==
  (last.op = "list" /\ last.query = "") =>
    \A i \in 1..Len(last.result) :
      last.result[i].Alias \notin DOMAIN loadMetadata(last.preMeta).entries =>
        /\ last.result[i].Tags =
             IF i > Len(Before) THEN cloudFile.entries[i - Len(Before)].Tags
             ELSE <<>>
        /\ last.result[i].LastSeen = ZeroTime
        /\ last.result[i].PinnedAt = ZeroTime
        /\ last.result[i].SSHCount = 0

C10_Witness ==
  /\ last.op = "list"
  /\ last.query = ""
  /\ \E i, j \in 1..Len(last.result) :
       /\ i <= Len(Before)
       /\ j > Len(Before)
       /\ last.result[i].Alias \notin DOMAIN loadMetadata(last.preMeta).entries
       /\ last.result[j].Alias \notin DOMAIN loadMetadata(last.preMeta).entries
       /\ last.result[j].Tags /= <<>>
       /\ last.result[j].LastSeen = ZeroTime

\* the metadata entries before the last operation and now
EntriesBefore == loadMetadata(last.preMeta).entries

EntriesNow == loadMetadata(metaFile).entries

\* C11: the metadata upsert after a successful add or update leaves the pin
\* time and the use count of the alias's entry as they were.
C11_UpsertFrame ==
  (/\ last.op \in {"add", "update"}
   /\ last.err = ""
   /\ last.new.Alias \in DOMAIN EntriesBefore)
  =>
  /\ last.new.Alias \in DOMAIN EntriesNow
  /\ EntriesNow[last.new.Alias].PinnedAt = EntriesBefore[last.new.Alias].PinnedAt
  /\ EntriesNow[last.new.Alias].SSHCount = EntriesBefore[last.new.Alias].SSHCount

\* the case of C12: setPinned(a, true), then setPinned(a, false)
PinnedThenUnpinned ==
  /\ last.op = "pin" /\ ~last.flag
  /\ last.prev.op = "pin" /\ last.prev.flag
  /\ last.prev.alias = last.arg.Alias

\* C12: after setPinned(a, true) and setPinned(a, false) every listed record
\* of a has no pin time, and the tags and last-seen time it had before the
\* two calls.
C12_PinRoundTrip ==
  PinnedThenUnpinned =>
    LET was == ListView(fs, last.prev.preMeta, cloudFile, appCfg, now)
        is == ListView(fs, metaFile, cloudFile, appCfg, now)
    IN \A i \in 1..Len(is) :
         is[i].Alias = last.arg.Alias =>
           /\ is[i].PinnedAt = ZeroTime
           /\ is[i].Tags = was[i].Tags
           /\ is[i].LastSeen = was[i].LastSeen

C12_Witness ==
  /\ PinnedThenUnpinned
  /\ last.arg.Alias \in DOMAIN loadMetadata(last.prev.preMeta).entries
  /\ loadMetadata(last.prev.preMeta).entries[last.arg.Alias].Tags /= <<>>
  /\ loadMetadata(last.prev.preMeta).entries[last.arg.Alias].PinnedAt.set
  /\ hasAlias(After, last.arg.Alias)
  /\ ~EntriesNow[last.arg.Alias].PinnedAt.set

\* the case of C13: two calls of recordUse(a) in a row
UsedTwice ==
  /\ last.op = "use"
  /\ last.prev.op = "use"
  /\ last.prev.alias = last.arg.Alias

\* C13 as stated: two calls of recordUse(a) from no entry yield use count 2
\* and a last-seen time not earlier than the time of the first call.
C13_NotEarlier ==
  (UsedTwice /\ last.arg.Alias \notin DOMAIN loadMetadata(last.prev.preMeta).entries)
  =>
  /\ EntriesNow[last.arg.Alias].SSHCount = 2
  /\ EntriesNow[last.arg.Alias].LastSeen.t >= last.prev.preNow

\* C13: each recordUse(a) succeeds, adds 1 to the use count of a (from 0 when
\* a has no entry) and stores the current time cut to whole seconds; after two
\* calls from no entry the count is 2 and the last-seen time is not earlier
\* than the time of the first call cut to whole seconds.
C13_RecordUse ==
  /\ last.op = "use" =>
       /\ last.err = ""
       /\ last.arg.Alias \in DOMAIN EntriesNow
       /\ EntriesNow[last.arg.Alias].SSHCount =
            entryOf(EntriesBefore, last.arg.Alias).SSHCount + 1
       /\ EntriesNow[last.arg.Alias].LastSeen = Format(last.preNow)
  /\ (UsedTwice
      /\ last.arg.Alias \notin DOMAIN loadMetadata(last.prev.preMeta).entries)
     =>
     /\ EntriesNow[last.arg.Alias].SSHCount = 2
     /\ EntriesNow[last.arg.Alias].LastSeen.t >= Format(last.prev.preNow).t

C13_Witness ==
  /\ UsedTwice
  /\ last.prev.preMeta.kind = "missing"
  /\ EntriesNow[last.arg.Alias].SSHCount = 2
  /\ EntriesNow[last.arg.Alias].LastSeen.t < last.preNow

\* C14: update or delete of a cloud record returns the validation error and
\* writes no config file, no backup and no metadata; and whatever the
\* operation, an alias is defined in the config files afterwards only if it
\* was before or is the alias of the record a successful add or update wrote,
\* so no record of the cloud descriptor reaches a config file.
C14_CloudReadOnly ==
  /\ (last.op \in {"update", "delete"}
      /\ last.arg.ConnectionType = ConnectionTypeAWS)
     => (last.err = "Validation" /\ Untouched)
  /\ \A i \in 1..Len(After) :
       \/ hasAlias(Before, After[i].Alias)
       \/ /\ last.op \in {"add", "update"}
          /\ last.err = ""
          /\ After[i].Alias = last.new.Alias

C14_Witness ==
  /\ last.op = "update"
  /\ last.arg.ConnectionType = ConnectionTypeAWS
  /\ last.err = "Validation"
  /\ \E i \in 1..Len(ListView(fs, metaFile, cloudFile, appCfg, now)) :
       /\ ListView(fs, metaFile, cloudFile, appCfg, now)[i].Alias = last.arg.Alias
       /\ ListView(fs, metaFile, cloudFile, appCfg, now)[i].ConnectionType
            = ConnectionTypeAWS
  /\ Before /= <<>>
  /\ Untouched

\* C15: list fails only when the primary config cannot be opened.  When the
\* cloud source is enabled and the descriptor does not load, list("") succeeds
\* with exactly the records of the config files, all of connection type ssh;
\* when the metadata file does not load, list("") succeeds with the records as
\* the merge with an empty annotation map leaves them: tags, pin time and
\* use count as parsed, last-seen time zero.
C15_ListDegrades ==
  last.op = "list" =>
    LET structural == ParseServers(last.preFs)
        cloudFails == /\ configLoad(last.preCfg).EnableAWSSource
                      /\ awsParseServers(cloudFile, last.preNow).err
        metaFails == loadMetadata(last.preMeta).err
    IN /\ last.err /= "" <=> parseError(last.preFs)
       /\ (last.err = "" /\ last.query = "" /\ cloudFails) =>
            /\ Len(last.result) = Len(structural)
            /\ \A i \in 1..Len(structural) :
                 /\ last.result[i].Alias = structural[i].Alias
                 /\ last.result[i].Host = structural[i].Host
                 /\ last.result[i].ConnectionType = ConnectionTypeSSH
       /\ (last.err = "" /\ last.query = "" /\ metaFails) =>
            LET pre == allServers(last.preFs, cloudFile, last.preCfg, last.preNow)
            IN /\ Len(last.result) = Len(pre)
               /\ \A i \in 1..Len(pre) :
                    last.result[i] = [pre[i] EXCEPT !.LastSeen = ZeroTime]

C15_Witness ==
  /\ last.op = "list"
  /\ last.query = ""
  /\ last.err = ""
  /\ configLoad(last.preCfg).EnableAWSSource
  /\ awsParseServers(cloudFile, last.preNow).err
  /\ loadMetadata(last.preMeta).err
  /\ Len(last.result) = 2

\* the Include lines of the primary config match no file
NoIncludeTarget(fsys) ==
  /\ fsys[Primary].exists
  /\ ~fsys[Primary].denied
  /\ parseFile(fsys[Primary].lines, "").includes /= <<>>
  /\ includeMatches(fsys, fsys[Primary].lines) = <<>>

\* C16: with no primary config, no cloud descriptor and no metadata file,
\* list("") returns the empty list and no error; and when the Include lines of
\* the primary config match no file, list("") returns no error and its structural
\* records are exactly those of the primary file.
C16_AbsenceIsEmpty ==
  (last.op = "list" /\ last.query = "") =>
    /\ (/\ ~last.preFs[Primary].exists
        /\ cloudFile.kind = "missing"
        /\ last.preMeta.kind = "missing")
       => (last.err = "" /\ last.result = <<>>)
    /\ NoIncludeTarget(last.preFs) =>
         LET own == parseFile(last.preFs[Primary].lines, "").servers
             listed == SelectSeq(last.result,
                         LAMBDA s : s.ConnectionType = ConnectionTypeSSH)
         IN /\ last.err = ""
            /\ Len(listed) = Len(own)
            /\ \A i \in 1..Len(own) : listed[i].Alias = own[i].Alias

C16_Witness ==
  /\ last.op = "list"
  /\ last.query = ""
  /\ ~last.preFs[Primary].exists
  /\ cloudFile.kind = "missing"
  /\ last.preMeta.kind = "missing"
  /\ ~last.preCfg.exists
  /\ last.err = ""
  /\ last.result = <<>>

\* an entry of the cloud descriptor without alias, without profile, or whose
\* target selection names no instance, no filter or no known method
Malformed(entry) ==
  \/ entry.Alias = <<>>
  \/ entry.Profile = ""
  \/ entry.Method \notin {"instance_id", "ec2_tag_filter"}
  \/ entry.Method = "instance_id" /\ entry.InstanceID = <<>>
  \/ entry.Method = "ec2_tag_filter" /\ entry.Filters = <<>>

\* C17: when one entry of the cloud descriptor is malformed, the parse of the
\* descriptor fails with no record, and a list lists no cloud record at all,
\* not even the valid entries that come before the malformed one.
C17_AllOrNothing ==
  (\E i \in 1..Len(cloudFile.entries) : Malformed(cloudFile.entries[i])) =>
    /\ awsParseServers(cloudFile, now).err
    /\ awsParseServers(cloudFile, now).servers = <<>>
    /\ (last.op = "list" /\ last.err = "") =>
         \A j \in 1..Len(last.result) :
           /\ last.result[j].ConnectionType /= ConnectionTypeAWS
           /\ last.result[j].Source /= "aws_yaml"

C17_Witness ==
  /\ last.op = "list"
  /\ last.err = ""
  /\ configLoad(last.preCfg).EnableAWSSource
  /\ cloudFile.kind = "yaml"
  /\ Len(cloudFile.entries) = 2
  /\ ~Malformed(cloudFile.entries[1])
  /\ Malformed(cloudFile.entries[2])
  /\ last.result /= <<>>

\* the searched fields of a record, lower-cased: alias, host, user, each tag
SearchFields(server) ==
  {LowerChars(ValueChars(server.Alias)), LowerChars(ValueChars(server.Host)),
   LowerChars(ValueChars(server.User))}
  \cup {LowerChars(Chars(server.Tags[i])) : i \in 1..Len(server.Tags)}

\* substr occurs in s at some position
OccursIn(substr, s) ==
  \E from, to \in 0..Len(s) :
    /\ from <= to
    /\ to - from = Len(substr)
    /\ \A k \in 1..Len(substr) : s[from + k] = substr[k]

\* the positions of the unfiltered listing that a query keeps
Kept(full, query) ==
  {i \in 1..Len(full) :
     \E f \in SearchFields(full[i]) : OccursIn(LowerChars(Chars(query)), f)}

OnlySSH ==
  \A i \in 1..Len(last.result) :
    last.result[i].ConnectionType = ConnectionTypeSSH

\* the cloud descriptor loads and has a record
CloudLoads ==
  /\ ~awsParseServers(cloudFile, now).err
  /\ awsParseServers(cloudFile, now).servers /= <<>>

C25_UpdateMissingNotFound ==
  (last.op = "update" /\ ~hasAlias(Before, last.arg.Alias)) =>
    (last.err = "NotFound" /\ Untouched)

\* C25: update of a record whose alias is not in the structural record set
\* fails and changes no config file, no backup and no metadata (no entry for
\* the new record is stored); the error is the validation error for a cloud
\* record, the parse error when the primary config cannot be opened, and
\* not-found in every other case.
C25_UpdateMissing ==
  (last.op = "update" /\ ~hasAlias(Before, last.arg.Alias)) =>
    /\ last.err = CASE last.arg.ConnectionType = ConnectionTypeAWS -> "Validation"
                     [] last.arg.ConnectionType /= ConnectionTypeAWS
                        /\ parseError(last.preFs) -> "Parse"
                     [] OTHER -> "NotFound"
    /\ Untouched

C25_Witness ==
  /\ last.op = "update"
  /\ ~hasAlias(Before, last.arg.Alias)
  /\ last.err = "NotFound"
  /\ Before /= <<>>
  /\ last.new.Alias \notin DOMAIN loadMetadata(metaFile).entries
  /\ last.preMeta.kind = "json"

\* C27: every record the cloud descriptor loader outputs has a target that
\* is not empty: the instance identifier of its entry under instance_id, the
\* expression of all the filters of its entry under ec2_tag_filter; and a
\* descriptor with an entry of another method, of an empty instance
\* identifier or of no filter gives an error and no record; stated of the
\* load a list makes while the cloud source is on.
C27_TargetNotEmpty ==
  LET parsed == awsParseServers(cloudFile, last.preNow) IN
  (last.op = "list" /\ configLoad(last.preCfg).EnableAWSSource) =>
  /\ \A i \in 1..Len(parsed.servers) :
       LET entry == cloudFile.entries[i]
           server == parsed.servers[i]
       IN \/ /\ entry.Method = "instance_id"
             /\ server.Host = entry.InstanceID
             /\ server.Host /= <<>>
          \/ /\ entry.Method = "ec2_tag_filter"
             /\ server.EC2TagFilter = entry.Filters
             /\ server.EC2TagFilter /= <<>>
  /\ (\E i \in 1..Len(cloudFile.entries) :
        LET entry == cloudFile.entries[i] IN
        \/ entry.Method \notin {"instance_id", "ec2_tag_filter"}
        \/ entry.Method = "instance_id" /\ entry.InstanceID = <<>>
        \/ entry.Method = "ec2_tag_filter" /\ entry.Filters = <<>>)
       => (parsed.err /\ parsed.servers = <<>>)

\* the fields of a record the caller sees as its structure
Structure(server) ==
  [Alias |-> server.Alias, Host |-> server.Host, User |-> server.User,
   Port |-> server.Port, Key |-> server.Key, Group |-> server.Group]

\* the aliases an operation is about: the alias of its argument and, for an
\* update, the alias of the new record
Targeted == {last.arg.Alias} \cup (IF last.op = "update" THEN {last.new.Alias} ELSE {})

\* the records of a group that the operation is not about, in order
OthersOf(servers, group) ==
  LET kept == SelectSeq(servers,
                LAMBDA s : s.Group = group /\ s.Alias \notin Targeted)
  IN [i \in 1..Len(kept) |-> Structure(kept[i])]

\* C28: after a successful add, update or delete the records of every other
\* alias are listed as before: the same alias, host, user, port, identity
\* files and group, in the same order within each group, none missing and
\* none twice.
C28_OthersUnchanged ==
  (last.op \in {"add", "update", "delete"} /\ last.err = "") =>
    \A g \in groupsOf(Before) \cup groupsOf(After) :
      OthersOf(After, g) = OthersOf(Before, g)

\* no alias occurs in two records
DistinctAliases(servers) ==
  \A i, j \in 1..Len(servers) : servers[i].Alias = servers[j].Alias => i = j

\* C29: a successful add, update or delete on a structural record set of
\* pairwise distinct aliases leaves a set of pairwise distinct aliases, also
\* when the new record of an update has another alias than the old one.
C29_AliasesStayDistinct ==
  (last.op \in {"add", "update", "delete"} /\ last.err = ""
   /\ DistinctAliases(Before)) => DistinctAliases(After)

\* the entry the metadata file holds for an alias, <<>> when it holds none
StoredEntry(mf, alias) ==
  IF mf.kind \in {"json", "malformed"} /\ alias \in DOMAIN mf.entries
    THEN <<mf.entries[alias]>> ELSE <<>>

\* C30: setPinned and recordUse of an alias leave the entry of every other
\* alias in the metadata file as it was (tags, last seen, pinned at, use
\* count), whatever the file held before.
C30_OtherEntriesKept ==
  (last.op \in {"pin", "use"}) =>
    \A alias \in MetaAliases \ {last.arg.Alias} :
      StoredEntry(metaFile, alias) = StoredEntry(last.preMeta, alias)

-----------------------------------------------------------------------------
(* One write of a config file, step by step: sshConfigManager.writeFile and *)
(* Repository.saveConfig over the target, the temporary file and the backup *)

WrPaths == {"target", "temp", "backup"}

\* os.Create on the target itself, as the legacy writeSSHConfig does
createTemp_InPlace(files) == [files EXCEPT !["target"] = File(<<>>)]

\* os.CreateTemp / Repository.createTempFile: a new empty file next to the
\* target
createTemp(files) == [files EXCEPT !["temp"] = File(<<>>)]

\* os.OpenFile(backupPath, O_CREATE|O_WRONLY|O_TRUNC): the backup is empty
openBackup(files) == [files EXCEPT !["backup"] = File(<<>>)]

\* io.Copy: the next line of the target reaches the backup
copyLine(files) ==
  [files EXCEPT !["backup"] =
     File(SubSeq(files["target"].lines, 1, Len(files["backup"].lines) + 1))]

\* the copy into the backup ends before every line has been copied
copyDone_Early(files) == TRUE

\* io.Copy returns at the end of the source
copyDone(files) == Len(files["backup"].lines) >= Len(files["target"].lines)

\* os.Rename(temp, target)
rename(files) ==
  [files EXCEPT !["target"] = files["temp"], !["temp"] = NoFile]

WrServer(alias) == [NewServer(<<alias>>, "") EXCEPT !.Host = <<"h1">>]

WrOldFiles ==
  {NoFile, File(HostBlock("a", "h1")), File(Write(<<WrServer("a")>>))}

WrContents == {Write(<<WrServer("a")>>), Write(<<WrServer("a"), WrServer("b")>>)}

WrInit ==
  /\ EngIdle /\ RtIdle /\ UnIdle /\ BkIdle /\ SvIdle
  /\ wrImpl \in {"writeFile", "saveConfig"}
  /\ wrPrimary \in BOOLEAN
  /\ wrImpl = "saveConfig" => wrPrimary
  /\ wrOld \in WrOldFiles
  /\ wrNew \in WrContents
  /\ wrFs = [p \in WrPaths |-> IF p = "target" THEN wrOld ELSE NoFile]
  /\ wrPc = "start"

WrStep(from, to) ==
  /\ wrPc = from
  /\ wrPc' = to
  /\ UNCHANGED <<wrImpl, wrPrimary, wrOld, wrNew, engVars, rtVars, svVars, unVars,
                 bkVars>>

\* os.MkdirAll of writeFile
WrMkdirAll ==
  /\ wrImpl = "writeFile"
  /\ WrStep("start", IF wrPrimary THEN "backup" ELSE "create")
  /\ UNCHANGED wrFs

\* backupCurrentConfig before the temporary file of writeFile is created,
\* createBackup after the temporary file of saveConfig is written
\* the step after the backup
afterBackup == IF wrImpl = "writeFile" THEN "create" ELSE "rename"

\* os.Stat of the target: no backup when there is no target, else the
\* backup file is opened
WrBackup ==
  IF wrFs["target"].exists
    THEN WrStep("backup", "copy") /\ wrFs' = openBackup(wrFs)
  ELSE WrStep("backup", afterBackup) /\ UNCHANGED wrFs

\* io.Copy(dst, src), line by line
WrCopy ==
  /\ ~copyDone(wrFs)
  /\ WrStep("copy", "copy")
  /\ wrFs' = copyLine(wrFs)

\* dst.Sync and the return of backupCurrentConfig / createBackup
WrBackupSync ==
  /\ copyDone(wrFs)
  /\ WrStep("copy", afterBackup)
  /\ UNCHANGED wrFs

WrCreateTemp ==
  /\ \/ wrImpl = "writeFile" /\ WrStep("create", "chmod")
     \/ wrImpl = "saveConfig" /\ WrStep("start", "write")
  /\ wrFs' = createTemp(wrFs)

\* os.Chmod of writeFile
WrChmod ==
  /\ WrStep("chmod", "write")
  /\ UNCHANGED wrFs

\* the content reaches the temporary file line by line
WrWrite ==
  /\ Len(wrFs["temp"].lines) < Len(wrNew)
  /\ WrStep("write", "write")
  /\ wrFs' = [wrFs EXCEPT !["temp"] =
                File(SubSeq(wrNew, 1, Len(wrFs["temp"].lines) + 1))]

WrSync ==
  /\ Len(wrFs["temp"].lines) >= Len(wrNew)
  /\ WrStep("write", IF wrImpl = "writeFile" THEN "close" ELSE "backup")
  /\ UNCHANGED wrFs

\* tmp.Close of writeFile
WrClose ==
  /\ WrStep("close", "rename")
  /\ UNCHANGED wrFs

WrRename ==
  /\ WrStep("rename", "done")
  /\ wrFs' = rename(wrFs)

\* a step returns an error: the deferred removal of the temporary file runs
WrFail ==
  /\ wrPc \notin {"done", "failed", "crashed"}
  /\ WrStep(wrPc, "failed")
  /\ wrFs' = [wrFs EXCEPT !["temp"] = NoFile]

\* the process is interrupted: nothing more runs
WrCrash ==
  /\ wrPc \notin {"done", "failed", "crashed"}
  /\ WrStep(wrPc, "crashed")
  /\ UNCHANGED wrFs

WrNext ==
  \/ WrMkdirAll \/ WrBackup \/ WrCopy \/ WrBackupSync \/ WrCreateTemp \/ WrChmod \/ WrWrite \/ WrSync
  \/ WrClose \/ WrRename \/ WrFail \/ WrCrash

SpecWrite == WrInit /\ [][WrNext]_vars

\* C1: at every step of a write, and after an interruption at any step, the
\* target holds its complete previous content or the complete new content;
\* after the write has finished it holds the new content.
C1_AtomicWrite ==
  /\ wrFs["target"] \in {wrOld, File(wrNew)}
  /\ wrPc = "done" => wrFs["target"] = File(wrNew)
  /\ wrPc \in {"start", "backup", "copy", "create", "chmod", "write", "close",
               "rename", "failed"} => wrFs["target"] = wrOld

C1_Witness ==
  /\ wrPc = "crashed"
  /\ wrOld.exists
  /\ wrFs["temp"].exists
  /\ wrFs["temp"].lines /= <<>>
  /\ Len(wrFs["temp"].lines) < Len(wrNew)
  /\ wrFs["target"] = wrOld

\* C26: when an existing primary file has been replaced, the backup holds
\* every line the primary had before the write; a write that failed, in the
\* backup or elsewhere, has not replaced the target; a write of a file that
\* is not the primary creates no backup.
C26_BackupBeforeReplace ==
  /\ (wrPrimary /\ wrOld.exists /\ (wrPc = "done" \/ wrFs["target"] /= wrOld))
       => wrFs["backup"] = wrOld
  /\ (wrPrimary /\ wrOld.exists /\ wrPc = "failed" /\ wrFs["backup"] /= wrOld)
       => wrFs["target"] = wrOld
  /\ ~wrPrimary => ~wrFs["backup"].exists

C26_Witness ==
  /\ wrPc = "done"
  /\ wrPrimary
  /\ wrOld.exists
  /\ wrFs["target"] = File(wrNew)
  /\ wrFs["target"] /= wrOld
  /\ wrFs["backup"] = wrOld

-----------------------------------------------------------------------------
(* Backups over successive rewrites of an existing primary file:            *)
(* Repository.createBackup and sshConfigManager.backupCurrentConfig.        *)
(* A backup is [name, mtime]; modification times follow the order of writes *)

MaxRewrites == 12

MaxBackups == 10

\* the name of the backup written at a millisecond: createBackup puts the
\* timestamp in the name, backupCurrentConfig uses the one name config.backup
backupName(impl, stamp) == IF impl = "createBackup" THEN stamp ELSE 0

\* copyFile / O_TRUNC: a backup of the same name is overwritten
writeBackup(files, name, mtime) ==
  {f \in files : f.name /= name} \cup {[name |-> name, mtime |-> mtime]}

\* the backups beyond the first MaxBackups when sorted oldest first
oldest_First(files) ==
  {f \in files : Cardinality({g \in files : g.mtime < f.mtime}) >= MaxBackups}

\* the backups beyond the first MaxBackups when sorted by ModTime, newest first
beyondCap(files) ==
  {f \in files : Cardinality({g \in files : g.mtime > f.mtime}) >= MaxBackups}

\* the backups createBackup removes
pruned(impl, files) ==
  IF impl = "createBackup" /\ Cardinality(files) > MaxBackups
    THEN beyondCap(files) ELSE {}

BkInit ==
  /\ EngIdle /\ RtIdle /\ UnIdle /\ WrIdle /\ SvIdle
  /\ bkImpl \in {"createBackup", "backupCurrentConfig"}
  /\ bkFiles = {}
  /\ bkRemoved = {}
  /\ bkClock = 1
  /\ bkStamps = 0
  /\ bkCount = 0

\* one successful rewrite of the primary; the millisecond clock may or may
\* not have moved on since the rewrite before
BkRewrite ==
  \E dt \in {0, 1} :
    LET stamp == bkClock + dt
        written == writeBackup(bkFiles, backupName(bkImpl, stamp), bkCount + 1)
    IN /\ bkCount < MaxRewrites
       /\ bkCount' = bkCount + 1
       /\ bkClock' = stamp
       /\ bkStamps' = IF bkCount = 0 \/ dt = 1 THEN bkStamps + 1 ELSE bkStamps
       /\ bkRemoved' = pruned(bkImpl, written)
       /\ bkFiles' = written \ pruned(bkImpl, written)
       /\ UNCHANGED <<bkImpl, engVars, rtVars, svVars, unVars, wrVars>>

BkNext == BkRewrite

SpecBackup == BkInit /\ [][BkNext]_vars

Min(a, b) == IF a < b THEN a ELSE b

-----------------------------------------------------------------------------
(* Update of an existing Host block through updateHostNodes *)

UnNodes ==
  { KV("HostName", "h1"), KV("User", "u1"), KV("Port", "2222"),
    KV("IdentityFile", "k1"), OtherNode }

UnServers ==
  [Alias : {"a"}, Host : {"h2"}, User : {"", "u2"}, Port : {22, 2222},
   IdentityFiles : {<<>>, <<"k2">>, <<"k1", "k2">>}]

UnOrders ==
  { <<"hostname", "user", "port">>, <<"port", "user", "hostname">>,
    <<"user", "hostname", "port">> }

UnInit ==
  /\ EngIdle
  /\ RtIdle
  /\ WrIdle
  /\ BkIdle
  /\ SvIdle
  /\ unHost \in [Patterns : {<<"a">>}, Nodes : SeqsUpTo(UnNodes, MaxNodes)]
  /\ unNew \in UnServers
  /\ unOrder \in UnOrders
  /\ unPc = "start"

UnUpdate ==
  /\ unPc = "start"
  /\ unHost' = [unHost EXCEPT !.Nodes = updateHostNodes(@, unNew, unOrder)]
  /\ unPc' = "updated"
  /\ UNCHANGED <<unNew, unOrder>>
  /\ UNCHANGED <<rtVars, svVars, engVars, wrVars, bkVars>>

UnNext == UnUpdate

SpecHostNodes == UnInit /\ [][UnNext]_vars

StructuralFields(s) == <<s.Host, s.User, s.Port, s.IdentityFiles>>

\* C4: after a same-alias update the listed record carries exactly the new
\* record's host, user, port and identity files, not a merge with the old ones.
C4_UpdateReplaces ==
  unPc = "updated" =>
    /\ Len(hostToServers(unHost)) = 1
    /\ StructuralFields(hostToServers(unHost)[1]) = StructuralFields(unNew)

-----------------------------------------------------------------------------
(* Round trip: parse, write, parse *)

RtLines ==
  { Line(0, <<"Host", "a">>), Line(0, <<"HOST", "b", "c">>),
    Line(2, <<"Hostname", "h1">>), Line(4, <<"User", "u1">>),
    Line(4, <<"Port", "2222">>), Line(4, <<"Port", "0">>),
    Line(4, <<"Port", "x">>), Line(4, <<"IdentityFile", "~/k">>),
    Line(0, <<"#Host", "z">>), Line(0, <<>>),
    Line(0, <<"Host", "web*", "a">>) }

RtInit ==
  /\ EngIdle
  /\ UnIdle
  /\ WrIdle
  /\ BkIdle
  /\ SvIdle
  /\ rtFile \in SeqsUpTo(RtLines, MaxLines)
  /\ rtWriter \in {"Write", "writeSSHConfig"}
  /\ rtPc = "start"
  /\ rtFirst = <<>>
  /\ rtText = <<>>
  /\ rtSecond = <<>>

RtParse ==
  /\ rtPc = "start"
  /\ rtFirst' = parseFile(rtFile, "").servers
  /\ rtPc' = "parsed"
  /\ UNCHANGED <<rtFile, rtWriter, rtText, rtSecond>>
  /\ UNCHANGED <<unVars, svVars, engVars, wrVars, bkVars>>

RtWrite ==
  /\ rtPc = "parsed"
  /\ rtText' = IF rtWriter = "Write" THEN Write(rtFirst) ELSE writeSSHConfig(rtFirst)
  /\ rtPc' = "written"
  /\ UNCHANGED <<rtFile, rtWriter, rtFirst, rtSecond>>
  /\ UNCHANGED <<unVars, svVars, engVars, wrVars, bkVars>>

RtReparse ==
  /\ rtPc = "written"
  /\ rtSecond' = parseFile(rtText, "").servers
  /\ rtPc' = "done"
  /\ UNCHANGED <<rtFile, rtWriter, rtFirst, rtText>>
  /\ UNCHANGED <<unVars, svVars, engVars, wrVars, bkVars>>

RtNext == RtParse \/ RtWrite \/ RtReparse

SpecRoundTrip == RtInit /\ [][RtNext]_vars

\* C6: parse, write, parse yields the same records in the same order.
C6_RoundTrip == rtPc = "done" => rtSecond = rtFirst

\* C19: every record that the parse of a config file yields, which list
\* returns with the port untouched, has a port in 1..65535.
C19_PortValid ==
  rtPc /= "start" =>
    \A i \in 1..Len(rtFirst) : rtFirst[i].Port \in 1..65535

\* the Host lines of a file, in order
HostLines(lines) ==
  SelectSeq(lines, LAMBDA l : /\ ~shouldSkipLine(l)
                              /\ Len(l.toks) >= 2
                              /\ ToLower(l.toks[1]) = "host")

\* the Host lines of a file none of whose patterns has a glob metacharacter
ConcreteHostLines(lines) ==
  SelectSeq(HostLines(lines),
            LAMBDA l : \A k \in 2..Len(l.toks) : ~HasWildcard(l.toks[k]))

\* C20: the parse of a config file yields one record for each Host line whose
\* patterns are all concrete, with the first pattern as its alias, and no
\* record for a Host line with a pattern that has a glob metacharacter.
C20_WildcardExcluded ==
  rtPc /= "start" =>
    /\ Len(rtFirst) = Len(ConcreteHostLines(rtFile))
    /\ \A i \in 1..Len(rtFirst) :
         rtFirst[i].Alias = <<ConcreteHostLines(rtFile)[i].toks[2]>>

-----------------------------------------------------------------------------
(* serverService over a repository that counts its calls: ListServers with   *)
(* its sort, AddServer and UpdateServer with validateServer, and SSH         *)

MaxListing == 3

\* a record as the service sees it
SvServer(alias, host, port, pinnedAt, type) ==
  [Alias |-> alias, Host |-> host, Port |-> port, PinnedAt |-> pinnedAt,
   ConnectionType |-> type]

\* the records the repository may list: two ssh aliases, unpinned or pinned at
\* one of two times, and the cloud record c
SvListed ==
  {SvServer(alias, "h1", 22, pinnedAt, ConnectionTypeSSH) :
     alias \in {"a", "b"}, pinnedAt \in {0, 2, 4}}
  \cup {SvServer("c", "i-1", 0, 0, ConnectionTypeAWS)}

\* the byte of a character, for the comparison of strings
ByteOf(c) ==
  CASE c = "a" -> 97
    [] c = "b" -> 98
    [] c = "c" -> 99
    [] OTHER -> 0

\* s < t on Go strings
RECURSIVE CharsLess(_, _)
CharsLess(s, t) ==
  IF t = <<>> THEN FALSE
  ELSE IF s = <<>> THEN TRUE
  ELSE IF ByteOf(Head(s)) /= ByteOf(Head(t)) THEN ByteOf(Head(s)) < ByteOf(Head(t))
  ELSE CharsLess(Tail(s), Tail(t))

\* the comparison with pinned records in ascending order of pin time
less_PinnedAscending(si, sj) ==
  LET pi == si.PinnedAt /= ZeroTime
      pj == sj.PinnedAt /= ZeroTime
  IN IF pi /= pj THEN pi
     ELSE IF pi /\ pj THEN si.PinnedAt < sj.PinnedAt
     ELSE CharsLess(Chars(si.Alias), Chars(sj.Alias))

\* the comparison of serverService.ListServers
less(si, sj) ==
  LET pi == si.PinnedAt /= ZeroTime
      pj == sj.PinnedAt /= ZeroTime
  IN IF pi /= pj THEN pi
     ELSE IF pi /\ pj THEN si.PinnedAt > sj.PinnedAt
     ELSE CharsLess(Chars(si.Alias), Chars(sj.Alias))

\* x put before the first element that it is less than
RECURSIVE insertStable(_, _)
insertStable(sorted, x) ==
  IF sorted = <<>> THEN <<x>>
  ELSE IF less(x, Head(sorted)) THEN <<x>> \o sorted
  ELSE <<Head(sorted)>> \o insertStable(Tail(sorted), x)

\* sort.SliceStable with less
RECURSIVE SliceStable(_, _)
SliceStable(sorted, rest) ==
  IF rest = <<>> THEN sorted
  ELSE SliceStable(insertStable(sorted, Head(rest)), Tail(rest))

\* the repository of the service: what it lists and how often it was called
SvRepo(servers) ==
  [servers |-> servers, listCalls |-> 0, addCalls |-> 0, updateCalls |-> 0,
   recordCalls |-> 0]

NoCall == [op |-> "none"]

NoOut == [err |-> "", result |-> <<>>]

SvInit ==
  /\ EngIdle /\ RtIdle /\ UnIdle /\ WrIdle /\ BkIdle
  /\ svPc = "start"
  /\ svRepo \in {SvRepo(servers) : servers \in SeqsUpTo(SvListed, MaxListing)}
  /\ svCall = NoCall
  /\ svOut = NoOut

\* serverService.ListServers
SvListServers ==
  \E listErr \in BOOLEAN :
    /\ svPc = "start"
    /\ svPc' = "done"
    /\ svCall' = [op |-> "list", listErr |-> listErr]
    /\ svRepo' = [svRepo EXCEPT !.listCalls = @ + 1]
    /\ svOut' = IF listErr THEN [err |-> "list", result |-> <<>>]
                ELSE [err |-> "", result |-> SliceStable(<<>>, svRepo.servers)]
    /\ UNCHANGED <<engVars, rtVars, unVars, wrVars, bkVars>>

\* how the session command ends: exit status 0; exit status 255 after the
\* remote host closed the connection or reset it; exit status 255 after the
\* server refused the key
Exits == {"success", "remote", "reset", "permission"}

\* cmd.Run: an error for every exit status other than 0
runError(exit) == exit /= "success"

\* the two versions of serverService.SSH: the one that looks the alias up in
\* the listing to choose the command, and the one that always runs ssh
SvImpls == {"lookup", "plain"}

\* the alias is in the listing
listedAlias(servers, alias) == \E i \in 1..Len(servers) : servers[i].Alias = alias

\* serverService.SSH
SvSSH ==
  \E impl \in SvImpls, alias \in {"a", "c", "z"}, exit \in Exits,
     listErr \in BOOLEAN, recordErr \in BOOLEAN :
    LET built == \/ impl = "plain"
                 \/ ~listErr /\ listedAlias(svRepo.servers, alias)
        ran == built /\ ~runError(exit)
    IN /\ svPc = "start"
       /\ svPc' = "done"
       /\ svCall' = [op |-> "ssh", impl |-> impl, alias |-> alias, exit |-> exit,
                     listErr |-> listErr, recordErr |-> recordErr,
                     built |-> built]
       /\ svRepo' = [svRepo EXCEPT
                       !.listCalls = IF impl = "lookup" THEN @ + 1 ELSE @,
                       !.recordCalls = IF ran THEN @ + 1 ELSE @]
       /\ svOut' = [err |-> IF impl = "lookup" /\ listErr THEN "list"
                            ELSE IF ~built THEN "not found"
                            ELSE IF runError(exit) THEN "exit"
                            ELSE "",
                    result |-> <<>>]
       /\ UNCHANGED <<engVars, rtVars, unVars, wrVars, bkVars>>

\* the letters and digits of the strings of the model
Letters == {"a", "b", "c", "d", "e", "h", "w", "z"}

Digits == {"0", "1", "2", "9"}

\* strings.TrimSpace
RECURSIVE TrimLeft(_)
TrimLeft(cs) ==
  IF cs /= <<>> /\ Head(cs) = " " THEN TrimLeft(Tail(cs)) ELSE cs

RECURSIVE TrimRight(_)
TrimRight(cs) ==
  IF cs /= <<>> /\ cs[Len(cs)] = " "
    THEN TrimRight(SubSeq(cs, 1, Len(cs) - 1)) ELSE cs

TrimSpace(cs) == TrimRight(TrimLeft(cs))

\* regexp ^[class]+$
MatchAll(cs, class) == cs /= <<>> /\ \A i \in 1..Len(cs) : cs[i] \in class

\* net.ParseIP on the hosts of the model: not nil for an IPv4 or IPv6 address
ParseIP(host) == host \in {"10.0.0.1", "::1"}

\* strings.Split(host, "."): the labels between the dots
RECURSIVE Split(_, _)
Split(cs, label) ==
  IF cs = <<>> THEN <<label>>
  ELSE IF Head(cs) = "." THEN <<label>> \o Split(Tail(cs), <<>>)
  ELSE Split(Tail(cs), Append(label, Head(cs)))

\* a validation that accepts every record
validateServer_None(srv) == ""

\* validateServer: "" or the error
validateServer(srv) ==
  LET alias == Chars(srv.Alias)
      host == Chars(srv.Host)
      labels == Split(host, <<>>)
  IN
  IF TrimSpace(alias) = <<>> THEN "alias is required"
  ELSE IF ~MatchAll(alias, Letters \cup Digits \cup {"_", ".", "-"})
    THEN "alias may contain letters, digits, dot, dash, underscore"
  ELSE IF TrimSpace(host) = <<>> THEN "Host/IP is required"
  ELSE IF ~ParseIP(srv.Host) /\ Contains(host, <<" ">>)
    THEN "host must not contain spaces"
  ELSE IF ~ParseIP(srv.Host) /\ ~MatchAll(host, Letters \cup Digits \cup {".", "-"})
    THEN "host contains invalid characters"
  ELSE IF ~ParseIP(srv.Host) /\ (Head(host) = "." \/ host[Len(host)] = ".")
    THEN "host must not start or end with a dot"
  ELSE IF ~ParseIP(srv.Host) /\ \E i \in 1..Len(labels) : labels[i] = <<>>
    THEN "host must not contain empty labels"
  ELSE IF ~ParseIP(srv.Host)
          /\ \E i \in 1..Len(labels) :
               Head(labels[i]) = "-" \/ labels[i][Len(labels[i])] = "-"
    THEN "hostname labels must not start or end with a hyphen"
  ELSE IF srv.Port /= 0 /\ (srv.Port < 1 \/ srv.Port > 65535)
    THEN "port must be a number between 1 and 65535"
  ELSE ""

\* the records the caller hands to AddServer and UpdateServer
SvAliases == {"", " ", "a", "a b", "a_b", "web*"}

SvHosts ==
  {"", " ", "h1", "h 1", "h_1", "a.b", "a..b", "a.-b", ".h", "h.", "-h", "h-",
   "::1", "10.0.0.1"}

SvPorts == {-5, 0, 22, 65535, 65536}

SvArgs ==
  {SvServer(alias, host, port, 0, ConnectionTypeSSH) :
     alias \in SvAliases, host \in SvHosts, port \in SvPorts}

\* serverService.AddServer
SvAddServer ==
  \E server \in SvArgs, repoErr \in BOOLEAN :
    LET err == validateServer(server) IN
    /\ svPc = "start"
    /\ svPc' = "done"
    /\ svCall' = [op |-> "add", server |-> server, repoErr |-> repoErr]
    /\ svRepo' = IF err /= "" THEN svRepo
                 ELSE [svRepo EXCEPT !.addCalls = @ + 1]
    /\ svOut' = [err |-> IF err /= "" THEN err
                         ELSE IF repoErr THEN "repository" ELSE "",
                 result |-> <<>>]
    /\ UNCHANGED <<engVars, rtVars, unVars, wrVars, bkVars>>

\* serverService.UpdateServer: only the new record is validated
SvUpdateServer ==
  \E newServer \in SvArgs, repoErr \in BOOLEAN :
    LET err == validateServer(newServer) IN
    /\ svPc = "start"
    /\ svPc' = "done"
    /\ svCall' = [op |-> "update", server |-> newServer, repoErr |-> repoErr]
    /\ svRepo' = IF err /= "" THEN svRepo
                 ELSE [svRepo EXCEPT !.updateCalls = @ + 1]
    /\ svOut' = [err |-> IF err /= "" THEN err
                         ELSE IF repoErr THEN "repository" ELSE "",
                 result |-> <<>>]
    /\ UNCHANGED <<engVars, rtVars, unVars, wrVars, bkVars>>

SvNext == SvListServers \/ SvSSH

SpecService == SvInit /\ [][SvNext]_vars

\* AddServer and UpdateServer over a repository that lists nothing or one
\* record
SvEditInit ==
  /\ EngIdle /\ RtIdle /\ UnIdle /\ WrIdle /\ BkIdle
  /\ svPc = "start"
  /\ svRepo \in {SvRepo(servers) : servers \in SeqsUpTo(SvListed, 1)}
  /\ svCall = NoCall
  /\ svOut = NoOut

SvEditNext == SvAddServer \/ SvUpdateServer

SpecServiceEdit == SvEditInit /\ [][SvEditNext]_vars

\* C21: SSH records the use exactly once and returns no error when the
\* command was built and ends with status 0 or with the remote host closing or
\* resetting the connection; in every other case it returns an error and
\* records nothing.
C21_RecordOnSessionEnd ==
  (svPc = "done" /\ svCall.op = "ssh") =>
    IF svCall.built /\ svCall.exit \in {"success", "remote", "reset"}
      THEN svOut.err = "" /\ svRepo.recordCalls = 1
    ELSE svOut.err /= "" /\ svRepo.recordCalls = 0

\* the number of positions of a listing that hold the record
CountOf(servers, r) == Cardinality({i \in 1..Len(servers) : servers[i] = r})

\* C23: the result of the service's list holds the records of the repository's
\* listing, each as often as there; every pinned record comes before every
\* unpinned one, a pinned record never comes before one pinned later, and an
\* unpinned record never comes before one with a smaller alias.  The call
\* changes nothing in the repository but the count of its list calls.
C23_PinnedFirst ==
  (svPc = "done" /\ svCall.op = "list" /\ svOut.err = "") =>
    LET res == svOut.result IN
    /\ Len(res) = Len(svRepo.servers)
    /\ \A r \in SvListed : CountOf(res, r) = CountOf(svRepo.servers, r)
    /\ \A i, j \in 1..Len(res) :
         i < j =>
           /\ res[j].PinnedAt /= 0 => res[i].PinnedAt /= 0
           /\ (res[i].PinnedAt /= 0 /\ res[j].PinnedAt /= 0)
                => res[i].PinnedAt >= res[j].PinnedAt
           /\ (res[i].PinnedAt = 0 /\ res[j].PinnedAt = 0)
                => ~CharsLess(Chars(res[j].Alias), Chars(res[i].Alias))
    /\ svRepo.addCalls = 0 /\ svRepo.updateCalls = 0 /\ svRepo.recordCalls = 0

\* a listing of an unpinned b, then a pinned earlier, then b pinned later
\* comes out in the opposite order
C23_Witness ==
  /\ svPc = "done"
  /\ svCall.op = "list"
  /\ svOut.err = ""
  /\ Len(svRepo.servers) = 3
  /\ svRepo.servers[1].PinnedAt = 0
  /\ svRepo.servers[2].PinnedAt = 2
  /\ svRepo.servers[3].PinnedAt = 4
  /\ svOut.result = <<svRepo.servers[3], svRepo.servers[2], svRepo.servers[1]>>

\* an alias that is blank or has a character other than a letter, a digit, a
\* dot, a dash or an underscore
IllFormedAlias(alias) ==
  \/ \A i \in 1..Len(Chars(alias)) : Chars(alias)[i] = " "
  \/ \E i \in 1..Len(Chars(alias)) :
       Chars(alias)[i] \notin Letters \cup Digits \cup {"_", ".", "-"}

\* a host that is blank, or is no IP address and has a character other than a
\* letter, a digit, a dot or a dash, or a label that is empty or starts or ends
\* with a dash
IllFormedHost(host) ==
  LET cs == Chars(host) IN
  \/ \A i \in 1..Len(cs) : cs[i] = " "
  \/ /\ host \notin {"10.0.0.1", "::1"}
     /\ \/ \E i \in 1..Len(cs) : cs[i] \notin Letters \cup Digits \cup {".", "-"}
        \/ cs[1] \in {".", "-"}
        \/ cs[Len(cs)] \in {".", "-"}
        \/ \E i \in 1..(Len(cs) - 1) :
             <<cs[i], cs[i + 1]>> \in {<<".", ".">>, <<".", "-">>, <<"-", ".">>}

\* C24: AddServer and UpdateServer return an error and do not call the
\* repository when the incoming record has an ill-formed alias, an ill-formed
\* host, or a port that is neither 0 nor in 1..65535; any other record is
\* handed to the repository once.
C24_ValidateFirst ==
  (svPc = "done" /\ svCall.op \in {"add", "update"}) =>
    LET srv == svCall.server
        bad == \/ IllFormedAlias(srv.Alias)
               \/ IllFormedHost(srv.Host)
               \/ srv.Port \notin {0} \cup (1..65535)
    IN IF bad
         THEN /\ svOut.err /= ""
              /\ svRepo.addCalls = 0 /\ svRepo.updateCalls = 0
       ELSE svRepo.addCalls + svRepo.updateCalls = 1

\* a record with a good alias and host and the port 65536 is rejected
C24_Witness ==
  /\ svPc = "done"
  /\ svCall.op = "add"
  /\ svCall.server.Alias = "a"
  /\ svCall.server.Host = "a.b"
  /\ svCall.server.Port = 65536
  /\ svOut.err /= ""
  /\ svRepo.addCalls = 0

====
